---- MODULE Spec2Model ----
(***************************************************************************)
(* Comparable-property recommendation backend.                             *)
(*                                                                         *)
(* Numbers.  Python floats are modelled in fixed point:                    *)
(*   - scores are integers in thousandths of a point (100.0 = 100000);     *)
(*   - distances are integers in tenths of a mile;                         *)
(*   - bathrooms are integers in half baths (1.5 baths = 3);               *)
(*   - dates are integer day numbers, "now" is the day of the wall clock.  *)
(* Positions lie on one meridian: a latitude is the arc length from the    *)
(* equator in tenths of a mile, the longitude is the same for every point. *)
(***************************************************************************)
EXTENDS Integers, Sequences, FiniteSets, TLC

(***************************************************************************)
(* Bounds of the model.                                                    *)
(***************************************************************************)
MaxCands == 2
MaxTicks == 1
MaxRecs == 3
MaxFits == 2

(***************************************************************************)
(* Values.                                                                 *)
(***************************************************************************)
\* Python's None for a numeric or date field
NoneV == -9999
\* reading an attribute the object does not have (AttributeError)
NoAttr == "<no attribute>"
\* the day of the wall clock when the process starts
StartDay == 100

Abs(x) == IF x < 0 THEN 0 - x ELSE x
Min(a, b) == IF a <= b THEN a ELSE b
Max(a, b) == IF a >= b THEN a ELSE b

SeqsUpTo(S, n) == UNION {[1..k -> S] : k \in 0..n}

(***************************************************************************)
(* app/schemas/property.py                                                 *)
(***************************************************************************)
\* the fields the Adjustments schema declares; pydantic refuses to assign
\* any other attribute (ValueError)
AdjustmentsFields ==
    {"gla_adjustment", "lot_size_adjustment", "location_adjustment", "time_adjustment"}

\* the fields PropertyBase / Property / SubjectProperty declare
PropertyFields ==
    {"address", "structure_type", "gla", "lot_size", "bedrooms", "bathrooms",
     "year_built", "latitude", "longitude", "id", "sale_date", "sale_price"}

SubjectFields ==
    {"address", "structure_type", "gla", "lot_size", "bedrooms", "bathrooms",
     "year_built", "latitude", "longitude", "id", "estimated_value"}

(***************************************************************************)
(* Inputs of PropertyRecommendationEngine: property objects.  A property   *)
(* built by the schema has no property_type and no condition attribute     *)
(* (NoAttr); a duck-typed object handed in by another caller may have them.*)
(***************************************************************************)
Obj(id, g, lat, sd, sp, pt) ==
    [id |-> id, gla |-> g, lot_size |-> 5000, bedrooms |-> 3, bathrooms |-> 4,
     year_built |-> 2000, latitude |-> lat, longitude |-> 0,
     sale_date |-> sd, sale_price |-> sp,
     property_type |-> pt, condition |-> IF pt = NoAttr THEN NoAttr ELSE "Good"]

SubjectObjects ==
    { [id |-> "S", gla |-> 2000, lot_size |-> 5000, bedrooms |-> 3, bathrooms |-> 4,
       year_built |-> 2000, latitude |-> 0, longitude |-> 0,
       property_type |-> pt, condition |-> IF pt = NoAttr THEN NoAttr ELSE "Average"]
      : pt \in {NoAttr, "Detached"} }

PropertyObjects ==
    { Obj("near", 2000, 0, StartDay, 400000, NoAttr),
      Obj("far", 2000, 60, StartDay, 400000, NoAttr),
      Obj("old", 2000, 0, StartDay - 95, 400000, NoAttr),
      Obj("undated", 2000, 0, NoneV, 400000, NoAttr),
      Obj("unpriced", 0, 0, StartDay, NoneV, NoAttr),
      Obj("typed", 1800, 10, StartDay, 380000, "Attached") }

\* caller-supplied bounds: miles * 10, days, count
MaxDistanceValues == {-10, 0, 50}
MaxDaysValues == {0, 90, 1000}
TopKValues == {-1, 0, 3}

(***************************************************************************)
(* app/utils/similarity.py                                                 *)
(***************************************************************************)
\* haversine distance in tenths of a mile; for two points on one meridian
\* dlon = 0, a = sin(dlat/2)^2, c = |dlat| and the distance is the arc
calculate_distance(lat1, lon1, lat2, lon2) == Abs(lat2 - lat1)

\* (now - date).days
calculate_days_since(date, today) == today - date

(***************************************************************************)
(* app/ml/recommendation_engine.py : PropertyRecommendationEngine          *)
(***************************************************************************)
\* the days_since_sale a candidate without a sale date gets
NoSaleDateDays == 999

Raised(err) == [raised |-> TRUE, error |-> err, value |-> 0]
Returned(v) == [raised |-> FALSE, error |-> "", value |-> v]

\* min(100, max(0, score)) in thousandths
Clamp100(score) == Max(0, Min(100000, score))

\* _calculate_similarity_score: deductions from 100, then the clamp; reading
\* property_type of an object that has none raises AttributeError
_calculate_similarity_score(subject, comp) ==
    LET s0 == 100000
        s1 == IF subject.gla > 0
              THEN s0 - (Abs(comp.gla - subject.gla) * 30000) \div subject.gla
              ELSE s0
        s2 == IF subject.lot_size > 0
              THEN s1 - (Abs(comp.lot_size - subject.lot_size) * 20000) \div subject.lot_size
              ELSE s1
        s3 == s2 - Abs(comp.bedrooms - subject.bedrooms) * 5000
        s4 == s3 - Abs(comp.bathrooms - subject.bathrooms) * 3750
        s5 == s4 - Min(Abs(comp.year_built - subject.year_built) * 100, 10000)
    IN  IF comp.property_type = NoAttr \/ subject.property_type = NoAttr
        THEN Raised("AttributeError")
        ELSE Returned(Clamp100(IF comp.property_type # subject.property_type
                               THEN s5 - 10000 ELSE s5))

\* the days_since_sale of lines 222-224, 245-247
DaysSinceSale(prop, today) ==
    IF prop.sale_date # NoneV THEN calculate_days_since(prop.sale_date, today)
    ELSE NoSaleDateDays

\* _calculate_adjustments: the condition adjustment is assigned to a field
\* the Adjustments schema does not declare
_calculate_adjustments(subject, comp, today) ==
    LET distance == calculate_distance(subject.latitude, subject.longitude,
                                       comp.latitude, comp.longitude)
        days == calculate_days_since(comp.sale_date, today)
    IN  IF subject.condition = NoAttr \/ comp.condition = NoAttr
        THEN Raised("AttributeError")
        ELSE IF "condition_adjustment" \notin AdjustmentsFields
        THEN Raised("ValueError")
        ELSE Returned([gla_adjustment |-> (comp.gla - subject.gla) * 50,
                       lot_size_adjustment |-> (comp.lot_size - subject.lot_size) * 5,
                       location_adjustment |->
                           IF distance > 10 THEN (0 - 200) * (distance - 10) ELSE 0,
                       time_adjustment |->
                           IF comp.sale_date # NoneV /\ days > 90
                           THEN (0 - 100) * (days - 90) ELSE 0])

\* the filter with the distance bound made strict
RECURSIVE FilterCandidates_Strict(_, _, _, _, _, _)
FilterCandidates_Strict(subject, candidates, max_distance, max_days_since_sale, today, i) ==
    IF i > Len(candidates) THEN <<>>
    ELSE LET prop == candidates[i]
             distance == calculate_distance(subject.latitude, subject.longitude,
                                            prop.latitude, prop.longitude)
             days_since_sale == DaysSinceSale(prop, today)
             rest == FilterCandidates_Strict(subject, candidates, max_distance,
                                             max_days_since_sale, today, i + 1)
         IN  IF distance < max_distance /\ days_since_sale <= max_days_since_sale
             THEN <<i>> \o rest
             ELSE rest

\* the filter keeping a candidate that meets either bound
RECURSIVE FilterCandidates_Or(_, _, _, _, _, _)
FilterCandidates_Or(subject, candidates, max_distance, max_days_since_sale, today, i) ==
    IF i > Len(candidates) THEN <<>>
    ELSE LET prop == candidates[i]
             distance == calculate_distance(subject.latitude, subject.longitude,
                                            prop.latitude, prop.longitude)
             days_since_sale == DaysSinceSale(prop, today)
             rest == FilterCandidates_Or(subject, candidates, max_distance,
                                         max_days_since_sale, today, i + 1)
         IN  IF distance <= max_distance \/ days_since_sale <= max_days_since_sale
             THEN <<i>> \o rest
             ELSE rest

\* the filter loop, lines 215-228: the positions of the candidates kept
RECURSIVE FilterCandidates(_, _, _, _, _, _)
FilterCandidates(subject, candidates, max_distance, max_days_since_sale, today, i) ==
    IF i > Len(candidates) THEN <<>>
    ELSE LET prop == candidates[i]
             distance == calculate_distance(subject.latitude, subject.longitude,
                                            prop.latitude, prop.longitude)
             days_since_sale == DaysSinceSale(prop, today)
             rest == FilterCandidates(subject, candidates, max_distance,
                                      max_days_since_sale, today, i + 1)
         IN  IF distance <= max_distance /\ days_since_sale <= max_days_since_sale
             THEN <<i>> \o rest
             ELSE rest

\* one pass of the scoring loop, lines 235-280, for the candidate at position i
ScoreCandidate(subject, prop, i, today) ==
    LET sim == _calculate_similarity_score(subject, prop)
        distance == calculate_distance(subject.latitude, subject.longitude,
                                       prop.latitude, prop.longitude)
        days_since_sale == DaysSinceSale(prop, today)
        adj == _calculate_adjustments(subject, prop, today)
    IN  IF sim.raised THEN sim
        ELSE IF adj.raised THEN adj
        ELSE Returned([idx |-> i, rank |-> 0,
                       similarity_score |-> sim.value,
                       overall_score |-> sim.value - distance * 500 - days_since_sale * 100])

\* the scoring loop: stops at the first candidate that raises.  scored lists
\* the candidates handed to _calculate_similarity_score
RECURSIVE ScoreLoop(_, _, _, _, _, _, _)
ScoreLoop(subject, candidates, filtered, today, k, recs, scored) ==
    IF k > Len(filtered)
    THEN [raised |-> FALSE, error |-> "", recs |-> recs, scored |-> scored]
    ELSE LET r == ScoreCandidate(subject, candidates[filtered[k]], filtered[k], today)
         IN  IF r.raised
             THEN [raised |-> TRUE, error |-> r.error, recs |-> <<>>,
                   scored |-> Append(scored, filtered[k])]
             ELSE ScoreLoop(subject, candidates, filtered, today, k + 1,
                            Append(recs, r.value), Append(scored, filtered[k]))

\* the insertion putting an entry ahead of the entries of equal score
RECURSIVE InsertDesc_Unstable(_, _)
InsertDesc_Unstable(sorted, rec) ==
    IF sorted = <<>> THEN <<rec>>
    ELSE IF Head(sorted).overall_score > rec.overall_score
         THEN <<Head(sorted)>> \o InsertDesc_Unstable(Tail(sorted), rec)
         ELSE <<rec>> \o sorted

\* recommendations.sort(key=overall_score, reverse=True): a stable sort, an
\* entry goes behind every entry whose score is not lower
RECURSIVE InsertDesc(_, _)
InsertDesc(sorted, rec) ==
    IF sorted = <<>> THEN <<rec>>
    ELSE IF Head(sorted).overall_score >= rec.overall_score
         THEN <<Head(sorted)>> \o InsertDesc(Tail(sorted), rec)
         ELSE <<rec>> \o sorted

RECURSIVE SortDesc(_)
SortDesc(recs) ==
    IF recs = <<>> THEN <<>>
    ELSE InsertDesc(SortDesc(SubSeq(recs, 1, Len(recs) - 1)), recs[Len(recs)])

\* recommendations[:top_k]: a negative top_k drops entries from the end
SliceTo(recs, top_k) ==
    IF top_k >= 0 THEN SubSeq(recs, 1, Min(top_k, Len(recs)))
    ELSE SubSeq(recs, 1, Max(0, Len(recs) + top_k))

\* the ranks left 0-based
SetRanks_ZeroBased(recs) == [i \in 1..Len(recs) |-> [recs[i] EXCEPT !.rank = i - 1]]

\* rec.rank = i + 1 over the truncated list
SetRanks(recs) == [i \in 1..Len(recs) |-> [recs[i] EXCEPT !.rank = i]]

\* lines 282-290
SortTruncateRank(recs, top_k) == SetRanks(SliceTo(SortDesc(recs), top_k))

(***************************************************************************)
(* app/ml/enhanced_recommendation_engine.py : EnhancedRecommendationEngine *)
(*                                                                         *)
(* Properties are dicts.  A key holding None is NoneV.  A sale date is     *)
(* [kind, day]: kind "iso" is a naive ISO string, "isoZ" an ISO string     *)
(* with a 'Z' suffix, "datetime" a datetime object, "none" None and "bad"  *)
(* an unparsable string.                                                   *)
(***************************************************************************)
Date(kind, day) == [kind |-> kind, day |-> day]

SubjectDict(g, lot) ==
    [id |-> "S", gla |-> g, lot_size |-> lot, bedrooms |-> 3, bathrooms |-> 4,
     year_built |-> 2000, latitude |-> 0, longitude |-> 0, neighborhood |-> "Kingston",
     property_type |-> "Detached", structure_type |-> "Detached",
     condition |-> "Average", quality |-> "Average", features |-> {"garage"},
     appraisal_date |-> Date("iso", StartDay), estimated_value |-> 400000]

CandidateDict(id, g, lot, beds, sd, sp) ==
    [id |-> id, gla |-> g, lot_size |-> lot, bedrooms |-> beds, bathrooms |-> 4,
     year_built |-> 2000, latitude |-> 0, longitude |-> 0, neighborhood |-> "Kingston",
     property_type |-> "Detached", structure_type |-> "Detached",
     condition |-> "Average", quality |-> "Average", features |-> {"garage"},
     sale_date |-> sd, sale_price |-> sp]

SubjectDicts == { SubjectDict(2000, 5000), SubjectDict(0, 5000) }

CandidateDicts ==
    { CandidateDict("same", 2000, 5000, 3, Date("iso", StartDay), 400000),
      CandidateDict("future", 2000, 5000, 3, Date("iso", StartDay + 40), 400000),
      CandidateDict("zulu", 2000, 5000, 3, Date("isoZ", StartDay), 400000),
      CandidateDict("object", 2000, 5000, 3, Date("datetime", StartDay), 400000),
      CandidateDict("big", 9000, 5000, 9, Date("iso", StartDay - 400), 900000),
      CandidateDict("nolot", 2000, NoneV, 3, Date("iso", StartDay), 400000),
      CandidateDict("nogla", NoneV, 5000, 3, Date("iso", StartDay), 400000),
      CandidateDict("unpriced", 0, 5000, NoneV, Date("none", 0), 0) }

\* x or 0
OrZero(x) == IF x = NoneV THEN 0 ELSE x

\* datetime.fromisoformat(d.replace('Z', '+00:00')): the timezone awareness
\* of the result, or "error" when replace or the parse raises
ParseDate(d) ==
    CASE d.kind = "iso" -> "naive"
      [] d.kind = "isoZ" -> "aware"
      [] OTHER -> "error"

condition_map(c) ==
    CASE c = "Poor" -> 1 [] c = "Fair" -> 2 [] c = "Average" -> 3
      [] c = "Good" -> 4 [] c = "Excellent" -> 5 [] OTHER -> 3

\* extract_features: the 16 features, fractions in thousandths; None in gla
\* or lot_size raises TypeError
extract_features(subject, candidate) ==
    LET gla_diff == (Abs(subject.gla - candidate.gla) * 1000) \div Max(subject.gla, 1)
        lot_diff == (Abs(subject.lot_size - candidate.lot_size) * 1000)
                        \div Max(subject.lot_size, 1)
        bed_diff == Abs(OrZero(subject.bedrooms) - OrZero(candidate.bedrooms))
        bath_diff == Abs(OrZero(subject.bathrooms) - OrZero(candidate.bathrooms))
        year_diff == Abs(OrZero(subject.year_built) - OrZero(candidate.year_built))
        geo_distance == Abs(OrZero(subject.latitude) - OrZero(candidate.latitude))
        same_neighborhood == IF subject.neighborhood = candidate.neighborhood THEN 1 ELSE 0
        same_property_type == IF subject.property_type = candidate.property_type THEN 1 ELSE 0
        same_structure_type ==
            IF subject.structure_type = candidate.structure_type THEN 1 ELSE 0
        condition_diff ==
            Abs(condition_map(subject.condition) - condition_map(candidate.condition))
        quality_diff ==
            Abs(condition_map(subject.quality) - condition_map(candidate.quality))
        feature_overlap == Cardinality(subject.features \cap candidate.features)
        feature_total == Cardinality(subject.features \cup candidate.features)
        feature_similarity == (feature_overlap * 1000) \div Max(feature_total, 1)
        sale == ParseDate(candidate.sale_date)
        appraisal == ParseDate(subject.appraisal_date)
        days_since_sale == subject.appraisal_date.day - candidate.sale_date.day
        time_features ==
            IF sale = "error" \/ appraisal = "error" \/ sale # appraisal
            THEN <<365, 0>>
            ELSE <<days_since_sale, Max(0, 1000 - (days_since_sale * 1000) \div 365)>>
        candidate_price == OrZero(candidate.sale_price)
        subject_value == OrZero(subject.estimated_value)
        price_ratio == IF subject_value > 0
                       THEN (candidate_price * 1000) \div subject_value ELSE 1000
        candidate_gla == IF OrZero(candidate.gla) = 0 THEN 1 ELSE candidate.gla
        price_per_sqft == IF candidate_gla > 0 THEN candidate_price \div candidate_gla ELSE 0
    IN  IF subject.gla = NoneV \/ candidate.gla = NoneV
           \/ subject.lot_size = NoneV \/ candidate.lot_size = NoneV
        THEN Raised("TypeError")
        ELSE Returned(<<gla_diff, lot_diff, bed_diff, bath_diff, year_diff, geo_distance,
                        same_neighborhood, same_property_type, same_structure_type,
                        condition_diff, quality_diff, feature_similarity>>
                      \o time_features \o <<price_ratio, price_per_sqft>>)

\* min(100, max(0, score)) without the upper cut
Clamp_NoUpper(score) == Max(0, score)

\* min(100, max(0, score)) in thousandths
Clamp(score) == Min(100000, Max(0, score))

\* _rule_based_similarity giving the GLA points for the difference
_rule_based_similarity_GlaBonus(subject, candidate, today) ==
    LET gla_diff == (Abs(subject.gla - candidate.gla) * 30000) \div Max(subject.gla, 1)
        gla_score == Min(gla_diff, 30000)
        location == IF subject.neighborhood = candidate.neighborhood THEN 25000 ELSE 0
        type == IF subject.property_type = candidate.property_type THEN 20000 ELSE 0
        bed_diff == Abs(OrZero(subject.bedrooms) - OrZero(candidate.bedrooms))
        bath_diff == Abs(OrZero(subject.bathrooms) - OrZero(candidate.bathrooms))
        room_score == Max(0, 15000 - bed_diff * 3000 - bath_diff * 1500)
        days_ago == today - candidate.sale_date.day
        recency_score ==
            IF ParseDate(candidate.sale_date) = "naive"
            THEN Max(0, 10000 - (days_ago * 10000) \div 365)
            ELSE 0
    IN  IF subject.gla = NoneV \/ candidate.gla = NoneV
        THEN Raised("TypeError")
        ELSE Returned(Clamp(gla_score + location + type + room_score + recency_score))

\* _rule_based_similarity: contributions added up from 0, then the clamp;
\* None in gla raises TypeError
_rule_based_similarity(subject, candidate, today) ==
    LET gla_diff == (Abs(subject.gla - candidate.gla) * 30000) \div Max(subject.gla, 1)
        gla_score == 30000 - Min(gla_diff, 30000)
        location == IF subject.neighborhood = candidate.neighborhood THEN 25000 ELSE 0
        type == IF subject.property_type = candidate.property_type THEN 20000 ELSE 0
        bed_diff == Abs(OrZero(subject.bedrooms) - OrZero(candidate.bedrooms))
        bath_diff == Abs(OrZero(subject.bathrooms) - OrZero(candidate.bathrooms))
        room_score == Max(0, 15000 - bed_diff * 3000 - bath_diff * 1500)
        days_ago == today - candidate.sale_date.day
        recency_score ==
            IF ParseDate(candidate.sale_date) = "naive"
            THEN Max(0, 10000 - (days_ago * 10000) \div 365)
            ELSE 0
    IN  IF subject.gla = NoneV \/ candidate.gla = NoneV
        THEN Raised("TypeError")
        ELSE Returned(Clamp(gla_score + location + type + room_score + recency_score))

\* the classifier and the scaler the engine holds or a file stores: whether it
\* has been fitted, and by which fit
\* len(extract_features(...)): the width of the extractor's output
FeatureCount == 16

Unfitted == [kind |-> "estimator", fitted |-> FALSE, fit |-> 0, features |-> 0]
Fitted(n) == [kind |-> "estimator", fitted |-> TRUE, fit |-> n, features |-> FeatureCount]
Missing == [kind |-> "missing"]
Corrupt == [kind |-> "corrupt"]
Metadata(trained) ==
    [kind |-> "metadata", model_version |-> "2.0.0", is_trained |-> trained,
     feature_count |-> FeatureCount]

\* a bundle saved by a build whose extractor had another width
ForeignFeatureCount == 13
ForeignFitted ==
    [kind |-> "estimator", fitted |-> TRUE, fit |-> 0, features |-> ForeignFeatureCount]
ForeignMetadata ==
    [kind |-> "metadata", model_version |-> "1.0.0", is_trained |-> TRUE,
     feature_count |-> ForeignFeatureCount]

\* StandardScaler.transform / RandomForestClassifier.predict_proba raise
\* NotFittedError on an estimator that has not been fitted and ValueError on
\* a feature vector of another width than the one they were fitted on
CanInfer(e) ==
    /\ e.scaler.fitted /\ e.scaler.features = FeatureCount
    /\ e.similarity_model.fitted /\ e.similarity_model.features = FeatureCount

\* predict_proba(...)[0][1] in thousandths: some fixed function of the
\* fitted pair and the features with values in [0, 1]
predict_proba(e, features) ==
    (features[1] + 7 * features[3] + features[13]
        + 331 * e.similarity_model.fit + 113 * e.scaler.fit) % 1001

\* predict_similarity with the except branch returning 0
predict_similarity_ZeroOnError(e, subject, candidate, today) ==
    LET features == extract_features(subject, candidate)
    IN  IF ~e.is_trained THEN _rule_based_similarity(subject, candidate, today)
        ELSE IF features.raised \/ ~CanInfer(e) THEN Returned(0)
        ELSE Returned(predict_proba(e, features.value) * 100)

\* predict_similarity
predict_similarity(e, subject, candidate, today) ==
    LET features == extract_features(subject, candidate)
    IN  IF ~e.is_trained THEN _rule_based_similarity(subject, candidate, today)
        ELSE IF features.raised \/ ~CanInfer(e)
        THEN _rule_based_similarity(subject, candidate, today)
        ELSE Returned(predict_proba(e, features.value) * 100)

\* load_model: the three reads in order; the first that raises ends the
\* load with False and leaves what was assigned before it
load_model(e, d) ==
    LET e1 == [e EXCEPT !.similarity_model = d.model]
        e2 == [e1 EXCEPT !.scaler = d.scaler]
        e3 == [e2 EXCEPT !.model_version = d.metadata.model_version,
                         !.is_trained = d.metadata.is_trained]
    IN  IF d.model.kind # "estimator" THEN [ok |-> FALSE, engine |-> e]
        ELSE IF d.scaler.kind # "estimator" THEN [ok |-> FALSE, engine |-> e1]
        ELSE IF d.metadata.kind # "metadata" THEN [ok |-> FALSE, engine |-> e2]
        ELSE [ok |-> TRUE, engine |-> e3]

\* save_model: the classifier, the scaler and the metadata written in order;
\* written is the number of files written before the call ends (3: all)
save_model(e, d, written) ==
    [model |-> IF written >= 1 THEN e.similarity_model ELSE d.model,
     scaler |-> IF written >= 2 THEN e.scaler ELSE d.scaler,
     metadata |-> IF written >= 3 THEN Metadata(e.is_trained) ELSE d.metadata,
     dataset |-> d.dataset]

\* the steps of train at which it can raise
TrainFailures ==
    {"none", "dataset_missing", "no_samples", "split", "model_fit", "cross_val"}

\* train: the scaler and the classifier are fitted in place, is_trained is
\* set after the cross-validation
train(e, failure, n) ==
    LET e1 == [e EXCEPT !.scaler = Fitted(n)]
        e2 == [e1 EXCEPT !.similarity_model = Fitted(n)]
        e3 == [e2 EXCEPT !.is_trained = TRUE]
    IN  CASE failure \in {"dataset_missing", "no_samples", "split"} ->
                [ok |-> FALSE, engine |-> e]
          [] failure = "model_fit" -> [ok |-> FALSE, engine |-> e1]
          [] failure = "cross_val" -> [ok |-> FALSE, engine |-> e2]
          [] OTHER -> [ok |-> TRUE, engine |-> e3]

(***************************************************************************)
(* app/api/api_v1/endpoints/dataset.py                                     *)
(***************************************************************************)
\* the attributes get_enhanced_recommendations and get_smart_recommendations
\* read from request.subject_property, lines 231-249 and 360-378
EndpointSubjectReads ==
    {"id", "address", "property_type", "structure_type", "gla", "lot_size", "bedrooms",
     "bathrooms", "year_built", "condition", "quality", "latitude", "longitude",
     "neighborhood", "features", "appraisal_date", "estimated_value"}

\* the attributes get_enhanced_recommendations reads from each candidate,
\* lines 253-271
EndpointCandidateReads ==
    {"id", "address", "property_type", "structure_type", "gla", "lot_size", "bedrooms",
     "bathrooms", "year_built", "condition", "quality", "latitude", "longitude",
     "neighborhood", "features", "sale_date", "sale_price"}

\* the dict the endpoints build from a request object; the sale date of a
\* schema object is a datetime
ToSubjectDict(obj) ==
    [id |-> obj.id, gla |-> obj.gla, lot_size |-> obj.lot_size, bedrooms |-> obj.bedrooms,
     bathrooms |-> obj.bathrooms, year_built |-> obj.year_built,
     latitude |-> obj.latitude, longitude |-> obj.longitude, neighborhood |-> NoAttr,
     property_type |-> obj.property_type, structure_type |-> "Detached",
     condition |-> obj.condition, quality |-> NoAttr, features |-> {},
     appraisal_date |-> Date("none", 0), estimated_value |-> NoneV]

ToCandidateDict(obj) ==
    [id |-> obj.id, gla |-> obj.gla, lot_size |-> obj.lot_size, bedrooms |-> obj.bedrooms,
     bathrooms |-> obj.bathrooms, year_built |-> obj.year_built,
     latitude |-> obj.latitude, longitude |-> obj.longitude, neighborhood |-> NoAttr,
     property_type |-> obj.property_type, structure_type |-> "Detached",
     condition |-> obj.condition, quality |-> NoAttr, features |-> {},
     sale_date |-> IF obj.sale_date = NoneV THEN Date("none", 0)
                   ELSE Date("datetime", obj.sale_date),
     sale_price |-> obj.sale_price]

\* the similarity thresholds of the two endpoints, in thousandths
EnhancedThreshold == 60000
SmartThreshold == 50000
\* scored_candidates[:10]
EndpointTopK == 10
\* unique_candidates[:50]
SmartCandidateLimit == 50
\* days_since_sale of a date the smart endpoint cannot parse
SmartDefaultDays == 365

\* the scoring loop of get_enhanced_recommendations, lines 274-284: an
\* exception of predict_similarity leaves the loop
RECURSIVE EnhancedScoringLoop(_, _, _, _, _, _, _)
EnhancedScoringLoop(e, subject, candidates, today, k, items, scored) ==
    IF k > Len(candidates)
    THEN [raised |-> FALSE, error |-> "", recs |-> items, scored |-> scored]
    ELSE LET r == predict_similarity(e, subject, candidates[k], today)
             item == [idx |-> k, rank |-> 0, similarity_score |-> r.value,
                      overall_score |-> r.value]
         IN  IF r.raised
             THEN [raised |-> TRUE, error |-> r.error, recs |-> <<>>,
                   scored |-> Append(scored, k)]
             ELSE EnhancedScoringLoop(e, subject, candidates, today, k + 1,
                       IF r.value >= EnhancedThreshold THEN Append(items, item) ELSE items,
                       Append(scored, k))

\* the scoring loop of get_smart_recommendations, lines 483-497: an
\* exception of predict_similarity skips the candidate
RECURSIVE SmartScoringLoop(_, _, _, _, _, _, _)
SmartScoringLoop(e, subject, candidates, today, k, items, scored) ==
    IF k > Len(candidates)
    THEN [raised |-> FALSE, error |-> "", recs |-> items, scored |-> scored]
    ELSE LET r == predict_similarity(e, subject, candidates[k], today)
             item == [idx |-> k, rank |-> 0, similarity_score |-> r.value,
                      overall_score |-> r.value]
         IN  SmartScoringLoop(e, subject, candidates, today, k + 1,
                 IF ~r.raised /\ r.value >= SmartThreshold THEN Append(items, item)
                 ELSE items,
                 Append(scored, k))

\* days_since_sale of get_smart_recommendations, lines 396-412
SmartDaysSince(d, today) ==
    IF ParseDate(d) = "error" THEN SmartDefaultDays ELSE today - d.day

\* lines 415-474: the dataset properties kept as candidates, as positions in
\* the dataset: priced, addressed, within both bounds, first of their address
RECURSIVE MineCandidates(_, _, _, _, _, _, _)
MineCandidates(subject, dataset, max_distance, max_days_since_sale, today, i, kept) ==
    IF i > Len(dataset) THEN SubSeq(kept, 1, Min(SmartCandidateLimit, Len(kept)))
    ELSE LET prop == dataset[i]
             distance == Abs(prop.latitude - subject.latitude)
             days_since == SmartDaysSince(prop.sale_date, today)
             keep == /\ prop.id # ""
                     /\ ~(OrZero(prop.sale_price) <= 0)
                     /\ distance <= max_distance
                     /\ days_since <= max_days_since_sale
                     /\ \A j \in 1..Len(kept) : dataset[kept[j]].id # prop.id
         IN  MineCandidates(subject, dataset, max_distance, max_days_since_sale, today,
                            i + 1, IF keep THEN Append(kept, i) ELSE kept)

\* the properties of data/appraisals_dataset.json, when the file is there
Dataset ==
    << CandidateDict("same", 2000, 5000, 3, Date("iso", StartDay), 400000),
       CandidateDict("nogla", NoneV, 5000, 3, Date("iso", StartDay), 400000),
       CandidateDict("unpriced", 0, 5000, NoneV, Date("none", 0), 0) >>

\* the requests the AppraisalRequest schema accepts: schema-built objects
SchemaSubject == CHOOSE s \in SubjectObjects : s.property_type = NoAttr

EndpointCandidateLists ==
    { <<>>,
      << Obj("near", 2000, 0, StartDay, 400000, NoAttr) >>,
      << Obj("unpriced", 0, 0, StartDay, NoneV, NoAttr),
         Obj("near", 2000, 0, StartDay, 400000, NoAttr) >> }

(***************************************************************************)
(* The vector path.  A property of the index is a dict; its embedding is   *)
(* the direction of its (scaled) feature vector, an angle in half degrees: *)
(* cosine similarity looks at directions only.  Similarities are integers  *)
(* in units of 0.00001, so that similarity * 100 in thousandths of a point *)
(* is the same number.                                                     *)
(***************************************************************************)
MaxRows == 3
MaxSaves == 2

NoneObj == [kind |-> "none"]
CorruptFile == [kind |-> "corrupt"]

\* a dict of the index or a subject of a vector query; sale_price NoneV is a
\* key holding None
VecProperty(address, price, g) ==
    [address |-> address, sale_price |-> price, gla |-> g, lot_size |-> 5000,
     bedrooms |-> 3, bathrooms |-> 4, year_built |-> 2000, garage_spaces |-> 1,
     structure_type |-> "Detached", latitude |-> 0, longitude |-> 0,
     close_date |-> StartDay]

Oak == VecProperty("12 Oak St", 400000, 2000)
Elm == VecProperty("34 Elm St", 380000, 1800)
Pine == VecProperty("56 Pine St", 900000, 9000)
Fir == VecProperty("78 Fir St", 90000, 2100)
OakAgain == VecProperty(" 12 OAK ST ", 410000, 2000)

\* the property lists handed to save_embeddings_and_metadata, each with the
\* matrix of its embeddings
AllBuilds == { <<Elm>>, <<Oak, Fir, OakAgain>>, <<Fir, Oak, Elm, Pine>> }

Builds == { b \in AllBuilds : Len(b) <= MaxRows }

\* the subjects of vector queries
VecSubjects ==
    { VecProperty("12 Oak St", 400000, 2000),
      VecProperty("12 Oak St", 0, 2000),
      VecProperty("", 400000, 1800),
      VecProperty("9 Ash St", NoneV, 2000) }

\* str.strip().lower()
NormalizeAddress(a) ==
    CASE a = " 12 OAK ST " -> "12 oak st"
      [] a = "12 Oak St" -> "12 oak st"
      [] a = "34 Elm St" -> "34 elm st"
      [] a = "56 Pine St" -> "56 pine st"
      [] a = "78 Fir St" -> "78 fir st"
      [] a = "9 Ash St" -> "9 ash st"
      [] a = "   " -> ""
      [] OTHER -> a

(***************************************************************************)
(* app/ml/embedding_generator.py, app/ml/optimized_recommendation_engine.py*)
(***************************************************************************)
\* the direction of the vector of all zeros
ZeroVector == -1

\* extract_ml_features_single (the same code in both classes) followed by
\* feature_scaler.transform: a fixed function of the features.  float(None)
\* raises inside extract_ml_features_single, which then returns zeros(16);
\* without a usable scaler the features stay unscaled
EmbedProperty(p, scaler) ==
    LET scaled == scaler.kind = "estimator" /\ scaler.fitted
    IN  IF p.sale_price = NoneV \/ p.gla = NoneV
        THEN IF scaled THEN 60 ELSE ZeroVector
        ELSE IF ~scaled
        THEN IF p.gla >= 9000 THEN 60 ELSE 0
        ELSE CASE p.gla = 2000 -> 0
               [] p.gla = 1800 -> 60
               [] p.gla = 9000 -> 120
               [] p.gla = 2100 -> 179
               [] OTHER -> 180

\* cos of an angle in half degrees, in units of 0.00001
Cos(d) ==
    CASE d = 0 -> 100000
      [] d = 1 -> 99996
      [] d = 59 -> 87036
      [] d = 60 -> 86603
      [] d = 119 -> 50754
      [] d = 120 -> 50000
      [] d = 179 -> 873
      [] d = 180 -> 0
      [] OTHER -> 0

\* sklearn cosine_similarity of the query with one row; a zero vector has
\* similarity 0 with everything
cosine_similarity(q, row) ==
    IF q = ZeroVector \/ row = ZeroVector THEN 0 ELSE Cos(Abs(q - row))

\* the outcomes of save_embeddings_and_metadata, by the step at which it
\* stops: 0 mkdir raises, 1 np.save stops part-way, 2 open(metadata_file)
\* raises, 3 json.dump stops part-way, 4 both files written
SaveStages == 0..4

\* save_embeddings_and_metadata, lines 351-374: the two files after the call
save_embeddings_and_metadata(st, embeddings, properties, stage, n) ==
    [st EXCEPT
        !.embeddings =
            CASE stage = 0 -> st.embeddings
              [] stage = 1 -> CorruptFile
              [] OTHER -> [kind |-> "array", rows |-> embeddings, save |-> n],
        !.metadata =
            CASE stage <= 2 -> st.metadata
              [] stage = 3 -> CorruptFile
              [] OTHER -> [kind |-> "list", items |-> properties, save |-> n],
        !.saves = n]

(***************************************************************************)
(* app/ml/embedding_generator.py : LightweightEmbeddingGenerator.  A value *)
(* of the dataset file is a JSON number, a string or null; the floats nan  *)
(* and inf are the numbers NaNV and InfV.                                  *)
(***************************************************************************)
MaxProps == 2

NaNV == -7777
InfV == 7777777

Num(n) == [t |-> "num", v |-> n, s |-> ""]
Str(text) == [t |-> "str", v |-> 0, s |-> text]
NoneRaw == [t |-> "none", v |-> 0, s |-> ""]

\* float(cleaned) for the strings of the dataset, after ',' and '$' have been
\* removed and the ends trimmed; NoneV: float raises ValueError
ParseNumber(text) ==
    CASE text = "410,000" -> 410000
      [] text = "$400,000" -> 400000
      [] text = " 2000 " -> 2000
      [] text = "5,000" -> 5000
      [] text = "inf" -> InfV
      [] OTHER -> NoneV

\* clean_numeric_value, lines 132-160
clean_numeric_value(value, default) ==
    CASE value.t = "none" -> default
      [] value.t = "num" -> value.v
      [] OTHER -> IF ParseNumber(value.s) = NoneV THEN default ELSE ParseNumber(value.s)

\* the truth value of a JSON value: nan is true, 0, "" and None are false
Truthy(value) ==
    CASE value.t = "none" -> FALSE
      [] value.t = "num" -> value.v # 0
      [] OTHER -> value.s # ""

\* a or b
OrRaw(a, b) == IF Truthy(a) THEN a ELSE b

\* a property of the dataset file
RawProperty(address, sale_price, close_price, g) ==
    [address |-> address, sale_price |-> sale_price, close_price |-> close_price,
     price |-> NoneRaw, gla |-> g, gross_living_area |-> NoneRaw,
     lot_size |-> Str("5,000"), bedrooms |-> Num(3), bathrooms |-> Num(4),
     year_built |-> Num(2000), garage_spaces |-> Num(1),
     structure_type |-> "Detached", latitude |-> Num(0), longitude |-> NoneRaw,
     close_date |-> StartDay]

RawProperties ==
    { RawProperty("12 Oak St", Num(400000), NoneRaw, Num(2000)),
      RawProperty(" 12 OAK ST ", NoneRaw, Str("410,000"), Str(" 2000 ")),
      RawProperty("34 Elm St", Num(380000), NoneRaw, Num(1800)),
      RawProperty("12 Oak St", Num(0), NoneRaw, Num(2000)),
      RawProperty("   ", Num(300000), NoneRaw, Num(1800)),
      RawProperty("78 Fir St", Num(NaNV), NoneRaw, Num(2100)),
      RawProperty("Unknown Address", Num(400000), NoneRaw, Num(2000)) }

RawComps ==
    { RawProperty("12 Oak St", Str("$400,000"), NoneRaw, Num(2000)),
      RawProperty("56 Pine St", Str("inf"), NoneRaw, Num(9000)) }

\* an entry of a property list that is not a dict
NotADict == [address |-> "<not a dict>"]

Appraisal(properties, comps) ==
    [subject_property |-> [latitude |-> NoneRaw, longitude |-> Num(0)],
     properties |-> properties, comps |-> comps]

Appraisals ==
    { Appraisal(properties, comps) :
        properties \in SeqsUpTo(RawProperties \cup {NotADict}, MaxProps),
        comps \in SeqsUpTo(RawComps, 1) }

\* the appraisal that follows the first one in a dataset of two
SecondAppraisal ==
    Appraisal(<<RawProperty("34 Elm St", Num(380000), NoneRaw, Num(1800)),
                RawProperty("12 Oak St", Num(400000), NoneRaw, Num(2000))>>, <<>>)

\* data/appraisals_dataset.json as the generator reads it
DatasetFile(appraisals) == [kind |-> "dataset", appraisals |-> appraisals]

Datasets ==
    {DatasetFile(<<>>)}
        \cup { DatasetFile(<<a>>) : a \in Appraisals }
        \cup { DatasetFile(<<a, SecondAppraisal>>) : a \in Appraisals }

\* the position of Kingston, ON (44.2312, -76.4860)
DefaultLatitude == 30560
DefaultLongitude == 0

\* x <= 0 for a float: false for nan
NonPositive(x) == x # NaNV /\ x <= 0

\* standardize_property_format, lines 162-220: the standardized dict, or
\* NoneObj for a property without an address, a positive price or a positive
\* gla.  The identifiers and the source tag of the dict are left out.
standardize_property_format(prop, appraisal) ==
    LET subject == appraisal.subject_property
        default_lat == clean_numeric_value(subject.latitude, DefaultLatitude)
        default_lng == clean_numeric_value(subject.longitude, DefaultLongitude)
        sale_price == clean_numeric_value(
                          OrRaw(OrRaw(prop.sale_price, prop.close_price), prop.price), 0)
        g == clean_numeric_value(OrRaw(prop.gla, prop.gross_living_area), 0)
        standardized ==
            [address |-> prop.address, sale_price |-> sale_price, gla |-> g,
             lot_size |-> clean_numeric_value(prop.lot_size, 0),
             bedrooms |-> clean_numeric_value(prop.bedrooms, 0),
             bathrooms |-> clean_numeric_value(prop.bathrooms, 2),
             year_built |-> clean_numeric_value(prop.year_built, 1990),
             garage_spaces |-> clean_numeric_value(prop.garage_spaces, 0),
             structure_type |-> prop.structure_type,
             latitude |-> clean_numeric_value(prop.latitude, default_lat),
             longitude |-> clean_numeric_value(prop.longitude, default_lng),
             close_date |-> prop.close_date]
    IN  IF \/ standardized.address = ""
           \/ standardized.address = "Unknown Address"
           \/ NonPositive(standardized.sale_price)
           \/ NonPositive(standardized.gla)
        THEN NoneObj
        ELSE standardized

\* lines 100-114: the standardized properties of every appraisal, candidates
\* before selected comps
RECURSIVE StandardizeAll(_, _)
StandardizeAll(props, appraisal) ==
    IF props = <<>> THEN <<>>
    ELSE LET prop == Head(props)
             standardized == IF prop = NotADict THEN NoneObj
                             ELSE standardize_property_format(prop, appraisal)
         IN  (IF standardized = NoneObj THEN <<>> ELSE <<standardized>>)
                 \o StandardizeAll(Tail(props), appraisal)

RECURSIVE AllProperties(_)
AllProperties(appraisals) ==
    IF appraisals = <<>> THEN <<>>
    ELSE StandardizeAll(Head(appraisals).properties \o Head(appraisals).comps,
                        Head(appraisals))
             \o AllProperties(Tail(appraisals))

\* the loop of lines 119-126 comparing the addresses as they are written
RECURSIVE Deduplicate_Verbatim(_, _, _)
Deduplicate_Verbatim(all_properties, seen_addresses, unique_properties) ==
    IF all_properties = <<>> THEN unique_properties
    ELSE LET prop == Head(all_properties)
             address == prop.address
         IN  IF address # "" /\ address \notin seen_addresses
             THEN Deduplicate_Verbatim(Tail(all_properties), seen_addresses \cup {address},
                                       Append(unique_properties, prop))
             ELSE Deduplicate_Verbatim(Tail(all_properties), seen_addresses,
                                       unique_properties)

\* the loop of lines 119-126
RECURSIVE Deduplicate(_, _, _)
Deduplicate(all_properties, seen_addresses, unique_properties) ==
    IF all_properties = <<>> THEN unique_properties
    ELSE LET prop == Head(all_properties)
             address == NormalizeAddress(prop.address)
         IN  IF address # "" /\ address \notin seen_addresses
             THEN Deduplicate(Tail(all_properties), seen_addresses \cup {address},
                              Append(unique_properties, prop))
             ELSE Deduplicate(Tail(all_properties), seen_addresses, unique_properties)

\* extract_all_properties, lines 91-130
extract_all_properties(dataset) ==
    Deduplicate(AllProperties(dataset.appraisals), {}, <<>>)

\* load_trained_models, lines 31-69: no model file is a failure, the scaler
\* is optional; a file joblib cannot read raises
load_trained_models(d) ==
    IF d.model.kind # "estimator" THEN [ok |-> FALSE, feature_scaler |-> NoneObj]
    ELSE IF d.scaler.kind = "missing" THEN [ok |-> TRUE, feature_scaler |-> NoneObj]
    ELSE IF d.scaler.kind # "estimator" THEN [ok |-> FALSE, feature_scaler |-> NoneObj]
    ELSE [ok |-> TRUE, feature_scaler |-> d.scaler]

\* the direction of a vector with a nan or an inf component
InvalidVector == -2

\* lines 301-311: the features of one property, scaled when the scaler takes
\* them.  A nan price gives nan features; the scaler refuses an inf and the
\* unscaled features, with the inf, are used
FeaturesScaled(prop, scaler) ==
    IF prop.sale_price \in {NaNV, InfV} \/ prop.gla \in {NaNV, InfV}
    THEN InvalidVector
    ELSE EmbedProperty(prop, scaler)

\* the loop of lines 296-318 keeping the metadata of a rejected property
RECURSIVE GenerateLoop_KeepInvalid(_, _, _, _)
GenerateLoop_KeepInvalid(all_properties, scaler, embeddings, valid_properties) ==
    IF all_properties = <<>>
    THEN [embeddings |-> embeddings, valid_properties |-> valid_properties]
    ELSE LET prop == Head(all_properties)
             features_scaled == FeaturesScaled(prop, scaler)
         IN  IF features_scaled # InvalidVector
             THEN GenerateLoop_KeepInvalid(Tail(all_properties), scaler,
                                           Append(embeddings, features_scaled),
                                           Append(valid_properties, prop))
             ELSE GenerateLoop_KeepInvalid(Tail(all_properties), scaler, embeddings,
                                           Append(valid_properties, prop))

\* the loop of lines 296-318: a property goes into both lists or into neither
RECURSIVE GenerateLoop(_, _, _, _)
GenerateLoop(all_properties, scaler, embeddings, valid_properties) ==
    IF all_properties = <<>>
    THEN [embeddings |-> embeddings, valid_properties |-> valid_properties]
    ELSE LET prop == Head(all_properties)
             features_scaled == FeaturesScaled(prop, scaler)
         IN  IF features_scaled # InvalidVector
             THEN GenerateLoop(Tail(all_properties), scaler,
                               Append(embeddings, features_scaled),
                               Append(valid_properties, prop))
             ELSE GenerateLoop(Tail(all_properties), scaler, embeddings,
                               valid_properties)

\* generate_all_embeddings, lines 264-349: the files after the call and the
\* two lists handed to save_embeddings_and_metadata.  An empty embedding list
\* makes embeddings_matrix.shape[1] raise IndexError before the save
generate_all_embeddings(d, st, dataset, stage, n) ==
    LET models == load_trained_models(d)
        all_properties == extract_all_properties(dataset)
        loop == GenerateLoop(all_properties, models.feature_scaler, <<>>, <<>>)
        failed == [ok |-> FALSE, store |-> st, saving |-> FALSE,
                   all_properties |-> <<>>, embeddings |-> <<>>,
                   valid_properties |-> <<>>]
    IN  IF ~models.ok THEN failed
        ELSE IF dataset.kind # "dataset" THEN failed
        ELSE IF all_properties = <<>> THEN failed
        ELSE IF loop.embeddings = <<>>
        THEN [failed EXCEPT !.all_properties = all_properties,
                            !.valid_properties = loop.valid_properties]
        ELSE [ok |-> (stage = 4),
              store |-> save_embeddings_and_metadata(st, loop.embeddings,
                                                     loop.valid_properties, stage, n),
              saving |-> TRUE, all_properties |-> all_properties,
              embeddings |-> loop.embeddings,
              valid_properties |-> loop.valid_properties]

(***************************************************************************)
(* app/ml/lightweight_vector_search.py : LightweightVectorSearch           *)
(***************************************************************************)
\* LightweightVectorSearch.__init__
NewLightweightSearch ==
    [property_embeddings |-> NoneObj, property_metadata |-> NoneObj,
     is_initialized |-> FALSE, total_properties |-> 0]

\* initialize, lines 33-74: both files must exist; np.load and json.load
\* assign as they go, an exception ends the call with False
lightweight_initialize(s, st) ==
    LET s1 == [s EXCEPT !.property_embeddings = st.embeddings]
        s2 == [s1 EXCEPT !.property_metadata = st.metadata,
                         !.total_properties = Len(st.metadata.items),
                         !.is_initialized = TRUE]
    IN  IF st.embeddings.kind = "missing" \/ st.metadata.kind = "missing"
        THEN [ok |-> FALSE, search |-> s]
        ELSE IF st.embeddings.kind = "corrupt" THEN [ok |-> FALSE, search |-> s]
        ELSE IF st.metadata.kind = "corrupt" THEN [ok |-> FALSE, search |-> s1]
        ELSE [ok |-> TRUE, search |-> s2]

\* the minimum similarity of a result: 0.01
SimilarityFloor == 1000

\* the sequences over the index set S in descending order of similarity:
\* argsort does not say how it orders equal values
SortedOrders(similarities, S) ==
    { sel \in [1..Cardinality(S) -> S] :
        /\ \A i, j \in 1..Cardinality(S) : i # j => sel[i] # sel[j]
        /\ \A i, j \in 1..Cardinality(S) :
              i < j => similarities[sel[i]] >= similarities[sel[j]] }

\* np.argpartition(similarities, -k)[-k:] taking the k smallest instead
Partition_Smallest(similarities, k) ==
    LET N == Len(similarities)
    IN  { S \in SUBSET (1..N) :
            /\ Cardinality(S) = k
            /\ \A i \in S, j \in (1..N) \ S : similarities[j] >= similarities[i] }

\* np.argpartition(similarities, -k)[-k:]: some k indices none of which has
\* a lower similarity than an index left out
Partition(similarities, k) ==
    LET N == Len(similarities)
    IN  { S \in SUBSET (1..N) :
            /\ Cardinality(S) = k
            /\ \A i \in S, j \in (1..N) \ S : similarities[j] <= similarities[i] }

\* lines 104-111: the orders top_indices can have.  [-0:] is the whole array
TopIndices(similarities, top_k) ==
    LET N == Len(similarities)
    IN  IF top_k >= N \/ top_k = 0 THEN SortedOrders(similarities, 1..N)
        ELSE UNION { SortedOrders(similarities, S) : S \in Partition(similarities, top_k) }

\* lines 114-132 for one order of top_indices: the results above the floor,
\* ranked by their place in top_indices, cut to top_k; a row without a
\* metadata entry raises IndexError
RECURSIVE BuildResults(_, _, _, _, _)
BuildResults(s, similarities, top_indices, rank, results) ==
    IF rank > Len(top_indices) THEN Returned(results)
    ELSE LET idx == top_indices[rank]
         IN  IF similarities[idx] <= SimilarityFloor
             THEN BuildResults(s, similarities, top_indices, rank + 1, results)
             ELSE IF idx > Len(s.property_metadata.items) THEN Raised("IndexError")
             ELSE BuildResults(s, similarities, top_indices, rank + 1,
                      Append(results,
                             [property |-> s.property_metadata.items[idx],
                              similarity_score |-> similarities[idx],
                              rank |-> rank,
                              property_index |-> idx,
                              similarity_raw |-> similarities[idx]]))

\* similarities of the query with every row, lines 98-101
Similarities(s, query_vector) ==
    [i \in 1..Len(s.property_embeddings.rows) |->
        cosine_similarity(query_vector, s.property_embeddings.rows[i])]

\* search_similar_properties for one order of top_indices
search_similar_properties(s, query_vector, top_k, top_indices) ==
    IF ~s.is_initialized THEN Raised("RuntimeError")
    ELSE LET r == BuildResults(s, Similarities(s, query_vector), top_indices, 1, <<>>)
         IN  IF r.raised THEN r ELSE Returned(SliceTo(r.value, top_k))

\* the loop of search_with_filters, lines 155-175: the results at or above
\* min_similarity and inside price_range, until top_k of them have been
\* collected; float(None) raises TypeError
RECURSIVE ApplyFilters(_, _, _, _, _, _)
ApplyFilters(initial_results, top_k, price_range, min_similarity, i, filtered_results) ==
    IF i > Len(initial_results) THEN Returned(filtered_results)
    ELSE LET result == initial_results[i]
             property_price == result.property.sale_price
             kept == Append(filtered_results, result)
         IN  IF result.similarity_raw < min_similarity
             THEN ApplyFilters(initial_results, top_k, price_range, min_similarity,
                               i + 1, filtered_results)
             ELSE IF price_range.kind = "range" /\ property_price = NoneV
             THEN Raised("TypeError")
             ELSE IF /\ price_range.kind = "range"
                     /\ \/ property_price < price_range.min_price
                        \/ property_price > price_range.max_price
             THEN ApplyFilters(initial_results, top_k, price_range, min_similarity,
                               i + 1, filtered_results)
             ELSE IF Len(kept) >= top_k THEN Returned(kept)
             ELSE ApplyFilters(initial_results, top_k, price_range, min_similarity,
                               i + 1, kept)

\* search_with_filters, lines 134-177, for one order of top_indices
search_with_filters(s, query_vector, top_k, price_range, min_similarity, top_indices) ==
    LET initial_results == search_similar_properties(s, query_vector, top_k * 3,
                                                     top_indices)
    IN  IF initial_results.raised THEN initial_results
        ELSE ApplyFilters(initial_results.value, top_k, price_range, min_similarity,
                          1, <<>>)

(***************************************************************************)
(* app/ml/optimized_recommendation_engine.py : OptimizedRecommendationEngine *)
(***************************************************************************)
\* OptimizedRecommendationEngine.__init__
NewOptimizedEngine ==
    [ml_model |-> NoneObj, feature_scaler |-> NoneObj, is_initialized |-> FALSE,
     model_metadata |-> NoneObj]

\* _load_trained_models, lines 73-116: no model file is a failure, the
\* metadata and the scaler are optional
_load_trained_models(o, d) ==
    LET o1 == [o EXCEPT !.ml_model = d.model]
        o2 == IF d.metadata.kind = "metadata"
              THEN [o1 EXCEPT !.model_metadata = d.metadata] ELSE o1
        o3 == IF d.scaler.kind = "estimator"
              THEN [o2 EXCEPT !.feature_scaler = d.scaler] ELSE o2
    IN  IF d.model.kind = "missing" THEN [ok |-> FALSE, engine |-> o]
        ELSE IF d.model.kind # "estimator" THEN [ok |-> FALSE, engine |-> o]
        ELSE IF d.metadata.kind \notin {"missing", "metadata"}
        THEN [ok |-> FALSE, engine |-> o1]
        ELSE IF d.scaler.kind \notin {"missing", "estimator"}
        THEN [ok |-> FALSE, engine |-> o2]
        ELSE [ok |-> TRUE, engine |-> o3]

\* initialize, lines 36-71: both loads run, the flag is set when both succeed
optimized_initialize(o, s, d, st) ==
    LET model_loaded == _load_trained_models(o, d)
        vector_search_ready == lightweight_initialize(s, st)
        ok == model_loaded.ok /\ vector_search_ready.ok
    IN  [ok |-> ok,
         engine |-> IF ok THEN [model_loaded.engine EXCEPT !.is_initialized = TRUE]
                    ELSE model_loaded.engine,
         search |-> vector_search_ready.search]

\* _passes_business_rules, lines 253-288: float(None) raises and the except
\* branch lets the candidate through
_passes_business_rules(subject, candidate) ==
    LET subject_address == NormalizeAddress(subject.address)
        candidate_address == NormalizeAddress(candidate.address)
    IN  IF subject.sale_price = NoneV \/ candidate.sale_price = NoneV THEN TRUE
        ELSE IF /\ subject.sale_price > 0 /\ candidate.sale_price > 0
                /\ \/ candidate.sale_price * 100 < subject.sale_price * 25
                   \/ candidate.sale_price > subject.sale_price * 2
        THEN FALSE
        ELSE IF subject.gla = NoneV \/ candidate.gla = NoneV THEN TRUE
        ELSE IF /\ subject.gla > 0 /\ candidate.gla > 0
                /\ \/ candidate.gla * 10 < subject.gla * 4
                   \/ candidate.gla * 10 > subject.gla * 25
        THEN FALSE
        ELSE IF subject_address # "" /\ candidate_address # ""
                /\ subject_address = candidate_address
        THEN FALSE
        ELSE TRUE

\* the loop of lines 195-216: the candidates that pass the rules, until
\* top_k of them have been collected
RECURSIVE ApplyBusinessRules(_, _, _, _, _)
ApplyBusinessRules(subject, similar_properties, top_k, i, final) ==
    IF i > Len(similar_properties) THEN final
    ELSE LET prop_data == similar_properties[i]
             final1 == IF _passes_business_rules(subject, prop_data.property)
                       THEN Append(final, prop_data) ELSE final
         IN  IF Len(final1) >= top_k THEN final1
             ELSE ApplyBusinessRules(subject, similar_properties, top_k, i + 1, final1)

\* get_fast_recommendations with the ready check on the search engine's flag
get_fast_recommendations_SearchFlag(o, s, subject_property, top_k, top_indices) ==
    LET query == EmbedProperty(subject_property, o.feature_scaler)
        similar == search_similar_properties(s, query, top_k * 2, top_indices)
    IN  IF ~s.is_initialized THEN Raised("RuntimeError")
        ELSE IF similar.raised THEN similar
        ELSE Returned(SliceTo(ApplyBusinessRules(subject_property, similar.value,
                                                 top_k, 1, <<>>), top_k))

\* get_fast_recommendations, lines 159-251, for one order of top_indices
get_fast_recommendations(o, s, subject_property, top_k, top_indices) ==
    LET query == EmbedProperty(subject_property, o.feature_scaler)
        similar == search_similar_properties(s, query, top_k * 2, top_indices)
    IN  IF ~o.is_initialized THEN Raised("RuntimeError")
        ELSE IF similar.raised THEN similar
        ELSE Returned(SliceTo(ApplyBusinessRules(subject_property, similar.value,
                                                 top_k, 1, <<>>), top_k))

(***************************************************************************)
(* app/ml/fast_recommendation_engine.py : FastRecommendationEngine         *)
(***************************************************************************)
\* FastRecommendationEngine.__init__
NewFastEngine ==
    [model |-> NoneObj, scaler |-> NoneObj, property_embeddings |-> NoneObj,
     property_metadata |-> [kind |-> "list", items |-> <<>>],
     similarity_index |-> NoneObj, is_loaded |-> FALSE]

\* the number of rows of a loaded file
Rows(file) ==
    CASE file.kind = "list" -> Len(file.items)
      [] file.kind \in {"array", "index"} -> Len(file.rows)
      [] OTHER -> 0

\* load_all_components, lines 31-69: five reads in order, each assigning its
\* field, then the two asserts, then the flag
load_all_components(f, d, st) ==
    LET f1 == [f EXCEPT !.model = d.model]
        f2 == [f1 EXCEPT !.scaler = d.scaler]
        f3 == [f2 EXCEPT !.property_embeddings = st.fast_embeddings]
        f4 == [f3 EXCEPT !.similarity_index = st.fast_index]
        f5 == [f4 EXCEPT !.property_metadata = st.fast_metadata]
    IN  IF d.model.kind # "estimator" THEN [ok |-> FALSE, engine |-> f]
        ELSE IF d.scaler.kind # "estimator" THEN [ok |-> FALSE, engine |-> f1]
        ELSE IF st.fast_embeddings.kind # "array" THEN [ok |-> FALSE, engine |-> f2]
        ELSE IF st.fast_index.kind # "index" THEN [ok |-> FALSE, engine |-> f3]
        ELSE IF st.fast_metadata.kind # "list" THEN [ok |-> FALSE, engine |-> f4]
        ELSE IF Rows(st.fast_metadata) # Rows(st.fast_embeddings)
                \/ Rows(st.fast_index) # Rows(st.fast_metadata)
        THEN [ok |-> FALSE, engine |-> f5]
        ELSE [ok |-> TRUE, engine |-> [f5 EXCEPT !.is_loaded = TRUE]]

\* extract_property_features returns 13 features
FastFeatureCount == 13

\* FastRecommendationEngine.get_fast_recommendations, lines 152-230:
\* scaler.transform raises on an unfitted scaler and on a feature vector of
\* another width; the filter loop reads candidate['sale_date'], a key the
\* dicts of the index do not have
fast_get_fast_recommendations(f, subject_property, num_recommendations) ==
    IF ~f.is_loaded THEN Raised("RuntimeError")
    ELSE IF ~f.scaler.fitted THEN Raised("NotFittedError")
    ELSE IF FastFeatureCount # f.scaler.features THEN Raised("ValueError")
    ELSE IF Rows(f.property_metadata) > 0 THEN Raised("KeyError")
    ELSE Returned(<<>>)

\* the files of models/ the fast engine reads, as some build left them
FastFiles(embeddings, index, metadata) ==
    [fast_embeddings |-> embeddings, fast_index |-> index, fast_metadata |-> metadata]

FastArray(build) ==
    [kind |-> "array", rows |-> [i \in 1..Len(build) |-> EmbedProperty(build[i], Fitted(1))]]
FastIndex(build) ==
    [kind |-> "index", rows |-> [i \in 1..Len(build) |-> EmbedProperty(build[i], Fitted(1))]]
FastList(build) == [kind |-> "list", items |-> build]

FastBundles ==
    { FastFiles(FastArray(<<Elm>>), FastIndex(<<Elm>>), FastList(<<Elm>>)),
      FastFiles(FastArray(<<Oak, Elm>>), FastIndex(<<Oak, Elm>>), FastList(<<Oak, Elm>>)),
      FastFiles(FastArray(<<Oak, Elm>>), Missing, FastList(<<Oak, Elm>>)),
      FastFiles(FastArray(<<Oak, Elm>>), FastIndex(<<Oak, Elm>>), FastList(<<Elm>>)) }

(***************************************************************************)
(* State.                                                                  *)
(***************************************************************************)
\* now:    the day of the wall clock
\* call:   the last call served: its inputs, what it did and how it ended
\* engine: the fields of the EnhancedRecommendationEngine instance
\* disk:   the files of models/ and the dataset file
\* fits:   the number of runs of train so far
\* store:  the files of models/embeddings/ (embeddings, metadata, the number
\*         of runs of save_embeddings_and_metadata) and the files of models/
\*         the fast engine reads
\* lightweight_search, optimized_engine, fast_engine: the fields of the
\*         three global instances of the vector path
VARIABLES now, call, engine, disk, fits, store, lightweight_search, optimized_engine, fast_engine

vectorVars == <<store, lightweight_search, optimized_engine, fast_engine>>

vars == <<now, call, engine, disk, fits, vectorVars>>

NoCall == [op |-> "none"]

\* EnhancedRecommendationEngine.__init__
NewEngine ==
    [similarity_model |-> Unfitted, scaler |-> Unfitted, is_trained |-> FALSE,
     model_version |-> "2.0.0"]

EmptyDisk == [model |-> Missing, scaler |-> Missing, metadata |-> Missing,
              dataset |-> FALSE]

EmptyStore ==
    [embeddings |-> Missing, metadata |-> Missing, saves |-> 0,
     fast_embeddings |-> Missing, fast_index |-> Missing, fast_metadata |-> Missing]

\* the module-level instances of the vector path
VectorStart ==
    /\ store = EmptyStore
    /\ lightweight_search = NewLightweightSearch
    /\ optimized_engine = NewOptimizedEngine
    /\ fast_engine = NewFastEngine

Init ==
    /\ now = StartDay
    /\ call = NoCall
    /\ engine = NewEngine
    /\ disk = EmptyDisk
    /\ fits = 0
    /\ VectorStart

Idle == call.op = "none"

\* the response of the last call has been delivered
Done ==
    /\ ~Idle
    /\ call' = NoCall
    /\ UNCHANGED <<now, engine, disk, fits, vectorVars>>

\* a day passes
Tick ==
    /\ Idle
    /\ now < StartDay + MaxTicks
    /\ now' = now + 1
    /\ UNCHANGED <<call, engine, disk, fits, vectorVars>>

\* PropertyRecommendationEngine.get_recommendations
GetRecommendations ==
    /\ Idle
    /\ \E subject \in SubjectObjects, candidates \in SeqsUpTo(PropertyObjects, MaxCands),
          max_distance \in MaxDistanceValues, max_days_since_sale \in MaxDaysValues,
          top_k \in TopKValues :
        LET filtered == FilterCandidates(subject, candidates, max_distance,
                                         max_days_since_sale, now, 1)
            loop == ScoreLoop(subject, candidates, filtered, now, 1, <<>>, <<>>)
            in == [op |-> "get_recommendations", subject |-> subject,
                   candidates |-> candidates, max_distance |-> max_distance,
                   max_days_since_sale |-> max_days_since_sale, top_k |-> top_k,
                   filtered_candidates |-> filtered]
        IN  call' =
                IF filtered = <<>>
                THEN in @@ [outcome |-> "returned", error |-> "", scored |-> <<>>,
                            recommendations |-> <<>>]
                ELSE IF loop.raised
                THEN in @@ [outcome |-> "raised", error |-> loop.error,
                            scored |-> loop.scored, recommendations |-> <<>>]
                ELSE in @@ [outcome |-> "returned", error |-> "", scored |-> loop.scored,
                            recommendations |-> SortTruncateRank(loop.recs, top_k)]
    /\ UNCHANGED <<now, engine, disk, fits, vectorVars>>

\* PropertyRecommendationEngine._calculate_adjustments, called directly
CalculateAdjustments ==
    /\ Idle
    /\ \E subject \in SubjectObjects, comp \in PropertyObjects :
          call' = [op |-> "_calculate_adjustments", subject |-> subject,
                   candidate |-> comp,
                   result |-> _calculate_adjustments(subject, comp, now)]
    /\ UNCHANGED <<now, engine, disk, fits, vectorVars>>

\* the candidate_properties of a request: objects built by the Property schema
SchemaCandidates == { p \in PropertyObjects : p.property_type = NoAttr }

\* POST /recommendations/, lines 15-79: get_recommendations with top_k=3 on
\* the objects of the request; any exception becomes a 500
PropertyRecommendations ==
    /\ Idle
    /\ \E candidates \in SeqsUpTo(SchemaCandidates, MaxCands),
          max_distance \in MaxDistanceValues, max_days_since_sale \in MaxDaysValues :
        LET subject == SchemaSubject
            filtered == FilterCandidates(subject, candidates, max_distance,
                                         max_days_since_sale, now, 1)
            loop == ScoreLoop(subject, candidates, filtered, now, 1, <<>>, <<>>)
            in == [op |-> "recommendations", subject |-> subject,
                   candidates |-> candidates, max_distance |-> max_distance,
                   max_days_since_sale |-> max_days_since_sale,
                   filtered_candidates |-> filtered]
        IN  call' =
                IF filtered = <<>>
                THEN in @@ [status |-> 200, error |-> "", recommendations |-> <<>>]
                ELSE IF loop.raised
                THEN in @@ [status |-> 500, error |-> loop.error,
                            recommendations |-> <<>>]
                ELSE in @@ [status |-> 200, error |-> "",
                            recommendations |-> SortTruncateRank(loop.recs, 3)]
    /\ UNCHANGED <<now, engine, disk, fits, vectorVars>>

Next ==
    \/ Done
    \/ Tick
    \/ GetRecommendations
    \/ CalculateAdjustments
    \/ PropertyRecommendations

Spec == Init /\ [][Next]_vars

(***************************************************************************)
(* SpecEnhanced: the EnhancedRecommendationEngine instance, its files, the *)
(* two endpoints that use it, and the scorers called on their own.         *)
(***************************************************************************)
\* PropertyRecommendationEngine._calculate_similarity_score, called directly
ScoreObjects ==
    PropertyObjects \cup { Obj("huge", 9000, 0, StartDay, 900000, "Detached"),
                           Obj("twin", 2000, 0, StartDay, 400000, "Detached") }

CalculateSimilarityScore ==
    /\ Idle
    /\ \E subject \in SubjectObjects, comp \in ScoreObjects :
          call' = [op |-> "_calculate_similarity_score", subject |-> subject,
                   candidate |-> comp,
                   result |-> _calculate_similarity_score(subject, comp)]
    /\ UNCHANGED <<now, engine, disk, fits, vectorVars>>

\* EnhancedRecommendationEngine._rule_based_similarity, called directly
RuleBasedSimilarity ==
    /\ Idle
    /\ \E subject \in SubjectDicts, candidate \in CandidateDicts :
          call' = [op |-> "_rule_based_similarity", subject |-> subject,
                   candidate |-> candidate,
                   result |-> _rule_based_similarity(subject, candidate, now)]
    /\ UNCHANGED <<now, engine, disk, fits, vectorVars>>

\* EnhancedRecommendationEngine.predict_similarity
PredictSimilarity ==
    /\ Idle
    /\ \E subject \in SubjectDicts, candidate \in CandidateDicts :
          call' = [op |-> "predict_similarity", subject |-> subject,
                   candidate |-> candidate,
                   result |-> predict_similarity(engine, subject, candidate, now)]
    /\ UNCHANGED <<now, engine, disk, fits, vectorVars>>

\* EnhancedRecommendationEngine.train
Train ==
    /\ Idle
    /\ fits < MaxFits
    /\ \E failure \in TrainFailures :
          LET r == train(engine, failure, fits + 1)
          IN  /\ engine' = r.engine
              /\ call' = [op |-> "train", failure |-> failure, ok |-> r.ok,
                          before |-> engine]
    /\ fits' = fits + 1
    /\ UNCHANGED <<now, disk, vectorVars>>

\* EnhancedRecommendationEngine.save_model, which may be cut short
SaveModel ==
    /\ Idle
    /\ \E written \in 1..3 :
          /\ disk' = save_model(engine, disk, written)
          /\ call' = [op |-> "save_model", written |-> written]
    /\ UNCHANGED <<now, engine, fits, vectorVars>>

\* EnhancedRecommendationEngine.load_model
LoadModel ==
    /\ Idle
    /\ LET r == load_model(engine, disk)
       IN  /\ engine' = r.engine
           /\ call' = [op |-> "load_model", ok |-> r.ok, before |-> engine]
    /\ UNCHANGED <<now, disk, fits, vectorVars>>

\* the process starts again: a new engine instance over the same files
Restart ==
    /\ Idle
    /\ engine # NewEngine
    /\ engine' = NewEngine
    /\ UNCHANGED <<now, call, disk, fits, vectorVars>>

\* a file of models/ is removed, or the dataset file is put in place
FileChange ==
    /\ Idle
    /\ \/ \E f \in {"model", "scaler", "metadata"} :
             /\ disk[f].kind # "missing"
             /\ disk' = [disk EXCEPT ![f] = Missing]
       \/ /\ ~disk.dataset
          /\ disk' = [disk EXCEPT !.dataset = TRUE]
    /\ UNCHANGED <<now, call, engine, fits, vectorVars>>

\* the bundle of another build of the code is put into models/
DeployBundle ==
    /\ Idle
    /\ disk.metadata # ForeignMetadata
    /\ disk' = [disk EXCEPT !.model = ForeignFitted, !.scaler = ForeignFitted,
                            !.metadata = ForeignMetadata]
    /\ UNCHANGED <<now, call, engine, fits, vectorVars>>

\* POST /recommendations/enhanced/
EnhancedRecommendations ==
    /\ Idle
    /\ \E objects \in EndpointCandidateLists :
          LET e1 == IF ~engine.is_trained THEN load_model(engine, disk).engine ELSE engine
              subject == ToSubjectDict(SchemaSubject)
              candidates == [k \in 1..Len(objects) |-> ToCandidateDict(objects[k])]
              loop == EnhancedScoringLoop(e1, subject, candidates, now, 1, <<>>, <<>>)
              in == [op |-> "enhanced", candidates |-> objects]
          IN  /\ engine' = e1
              /\ call' =
                    IF ~(EndpointSubjectReads \subseteq SubjectFields)
                       \/ (objects # <<>> /\ ~(EndpointCandidateReads \subseteq PropertyFields))
                    THEN in @@ [status |-> 500, error |-> "AttributeError",
                                scored |-> <<>>, recommendations |-> <<>>]
                    ELSE IF loop.raised
                    THEN in @@ [status |-> 500, error |-> loop.error,
                                scored |-> loop.scored, recommendations |-> <<>>]
                    ELSE in @@ [status |-> 200, error |-> "", scored |-> loop.scored,
                                recommendations |->
                                    SetRanks(SliceTo(SortDesc(loop.recs), EndpointTopK))]
    /\ UNCHANGED <<now, disk, fits, vectorVars>>

\* POST /recommendations/smart/
SmartRecommendations ==
    /\ Idle
    /\ \E max_distance \in MaxDistanceValues, max_days_since_sale \in MaxDaysValues :
          LET subject == ToSubjectDict(SchemaSubject)
              mined == MineCandidates(subject, Dataset, max_distance,
                                      max_days_since_sale, now, 1, <<>>)
              candidates == [k \in 1..Len(mined) |-> Dataset[mined[k]]]
              e1 == IF ~engine.is_trained THEN load_model(engine, disk).engine ELSE engine
              loop == SmartScoringLoop(e1, subject, candidates, now, 1, <<>>, <<>>)
              in == [op |-> "smart", max_distance |-> max_distance,
                     max_days_since_sale |-> max_days_since_sale]
          IN  IF ~disk.dataset
              THEN /\ call' = in @@ [status |-> 500, error |-> "HTTPException 404",
                                     scored |-> <<>>, recommendations |-> <<>>]
                   /\ engine' = engine
              ELSE IF ~(EndpointSubjectReads \subseteq SubjectFields)
              THEN /\ call' = in @@ [status |-> 500, error |-> "AttributeError",
                                     scored |-> <<>>, recommendations |-> <<>>]
                   /\ engine' = engine
              ELSE /\ call' = in @@ [status |-> 200, error |-> "",
                                     scored |-> [k \in 1..Len(loop.scored) |->
                                                    mined[loop.scored[k]]],
                                     recommendations |->
                                        SetRanks(SliceTo(SortDesc(loop.recs), EndpointTopK))]
                   /\ engine' = e1
    /\ UNCHANGED <<now, disk, fits, vectorVars>>

EnhancedNext ==
    \/ Done
    \/ Tick
    \/ CalculateSimilarityScore
    \/ RuleBasedSimilarity
    \/ PredictSimilarity
    \/ Train
    \/ SaveModel
    \/ LoadModel
    \/ Restart
    \/ FileChange
    \/ DeployBundle
    \/ EnhancedRecommendations
    \/ SmartRecommendations

SpecEnhanced == Init /\ [][EnhancedNext]_vars

(***************************************************************************)
(* SpecVector: the vector path.  The embedding files are written by        *)
(* save_embeddings_and_metadata, the three engines load what is on disk    *)
(* and serve queries.  The model files of models/ are as an earlier        *)
(* training run left them.                                                 *)
(***************************************************************************)
\* models/ after train and save_model, and the same without the scaler file
TrainedDisk == save_model(train(NewEngine, "none", 1).engine, EmptyDisk, 3)

VectorDisks == { EmptyDisk, TrainedDisk, [TrainedDisk EXCEPT !.scaler = Missing] }

\* the query vectors of direct calls of search_similar_properties
QueryVectors == { 0, 60, ZeroVector }

VectorInit ==
    /\ now = StartDay
    /\ call = NoCall
    /\ engine = NewEngine
    /\ fits = 0
    /\ disk \in VectorDisks
    /\ VectorStart

\* LightweightEmbeddingGenerator.save_embeddings_and_metadata
SaveEmbeddingsAndMetadata ==
    /\ Idle
    /\ store.saves < MaxSaves
    /\ \E properties \in Builds, stage \in SaveStages :
          LET embeddings == [i \in 1..Len(properties) |->
                                EmbedProperty(properties[i], disk.scaler)]
              n == store.saves + 1
          IN  /\ store' = save_embeddings_and_metadata(store, embeddings, properties,
                                                       stage, n)
              /\ call' = [op |-> "save_embeddings_and_metadata", stage |-> stage,
                          ok |-> (stage = 4), save |-> n, before |-> store]
    /\ UNCHANGED <<now, engine, disk, fits, lightweight_search, optimized_engine,
                   fast_engine>>

\* LightweightVectorSearch.initialize
LightweightInitialize ==
    /\ Idle
    /\ LET r == lightweight_initialize(lightweight_search, store)
       IN  /\ lightweight_search' = r.search
           /\ call' = [op |-> "lightweight_search.initialize", ok |-> r.ok]
    /\ UNCHANGED <<now, engine, disk, fits, store, optimized_engine, fast_engine>>

\* OptimizedRecommendationEngine.initialize
OptimizedInitialize ==
    /\ Idle
    /\ LET r == optimized_initialize(optimized_engine, lightweight_search, disk, store)
       IN  /\ optimized_engine' = r.engine
           /\ lightweight_search' = r.search
           /\ call' = [op |-> "optimized_engine.initialize", ok |-> r.ok]
    /\ UNCHANGED <<now, engine, disk, fits, store, fast_engine>>

\* LightweightVectorSearch.search_similar_properties
SearchSimilarProperties ==
    /\ Idle
    /\ \E query_vector \in QueryVectors, top_k \in 0..(MaxRows + 1) :
          LET in == [op |-> "search_similar_properties", query_vector |-> query_vector,
                     top_k |-> top_k, ready |-> lightweight_search.is_initialized]
              similarities == Similarities(lightweight_search, query_vector)
          IN  IF ~lightweight_search.is_initialized
              THEN call' = in @@ [similarities |-> <<>>,
                                  result |-> search_similar_properties(
                                      lightweight_search, query_vector, top_k, <<>>)]
              ELSE \E top_indices \in TopIndices(similarities, top_k) :
                      call' = in @@ [similarities |-> similarities,
                                     result |-> search_similar_properties(
                                         lightweight_search, query_vector, top_k,
                                         top_indices)]
    /\ UNCHANGED <<now, engine, disk, fits, vectorVars>>

\* OptimizedRecommendationEngine.get_fast_recommendations
OptimizedGetFastRecommendations ==
    /\ Idle
    /\ \E subject_property \in VecSubjects, top_k \in 0..2 :
          LET in == [op |-> "get_fast_recommendations",
                     subject_property |-> subject_property, top_k |-> top_k,
                     ready |-> optimized_engine.is_initialized]
              query == EmbedProperty(subject_property, optimized_engine.feature_scaler)
          IN  IF ~lightweight_search.is_initialized
              THEN call' = in @@ [result |-> get_fast_recommendations(
                                      optimized_engine, lightweight_search,
                                      subject_property, top_k, <<>>)]
              ELSE \E top_indices \in
                        TopIndices(Similarities(lightweight_search, query), top_k * 2) :
                      call' = in @@ [result |-> get_fast_recommendations(
                                         optimized_engine, lightweight_search,
                                         subject_property, top_k, top_indices)]
    /\ UNCHANGED <<now, engine, disk, fits, vectorVars>>

\* a build puts its files for the fast engine into models/
DeployFastFiles ==
    /\ Idle
    /\ \E b \in FastBundles :
          /\ store' = [store EXCEPT !.fast_embeddings = b.fast_embeddings,
                                    !.fast_index = b.fast_index,
                                    !.fast_metadata = b.fast_metadata]
          /\ store' # store
    /\ UNCHANGED <<now, call, engine, disk, fits, lightweight_search, optimized_engine,
                   fast_engine>>

\* FastRecommendationEngine.load_all_components
FastLoadAllComponents ==
    /\ Idle
    /\ LET r == load_all_components(fast_engine, disk, store)
       IN  /\ fast_engine' = r.engine
           /\ call' = [op |-> "load_all_components", ok |-> r.ok]
    /\ UNCHANGED <<now, engine, disk, fits, store, lightweight_search, optimized_engine>>

\* FastRecommendationEngine.get_fast_recommendations
FastGetFastRecommendations ==
    /\ Idle
    /\ \E subject_property \in VecSubjects :
          call' = [op |-> "fast_engine.get_fast_recommendations",
                   subject_property |-> subject_property,
                   ready |-> fast_engine.is_loaded,
                   result |-> fast_get_fast_recommendations(fast_engine,
                                                            subject_property, 3)]
    /\ UNCHANGED <<now, engine, disk, fits, vectorVars>>

VectorNext ==
    \/ Done
    \/ SaveEmbeddingsAndMetadata
    \/ LightweightInitialize
    \/ OptimizedInitialize
    \/ SearchSimilarProperties
    \/ OptimizedGetFastRecommendations
    \/ DeployFastFiles
    \/ FastLoadAllComponents
    \/ FastGetFastRecommendations

SpecVector == VectorInit /\ [][VectorNext]_vars

(***************************************************************************)
(* SpecExtract: extract_all_properties applied to every dataset of         *)
(* Datasets.                                                               *)
(***************************************************************************)
ExtractInit ==
    /\ now = StartDay
    /\ engine = NewEngine
    /\ disk = EmptyDisk
    /\ fits = 0
    /\ VectorStart
    /\ \E dataset \in Datasets : call = [op |-> "dataset", dataset |-> dataset]

\* LightweightEmbeddingGenerator.extract_all_properties
ExtractAllProperties ==
    /\ call.op = "dataset"
    /\ call' = [op |-> "extract_all_properties", dataset |-> call.dataset,
                all_properties |-> AllProperties(call.dataset.appraisals),
                result |-> extract_all_properties(call.dataset)]
    /\ UNCHANGED <<now, engine, disk, fits, vectorVars>>

ExtractNext == ExtractAllProperties

SpecExtract == ExtractInit /\ [][ExtractNext]_vars

(***************************************************************************)
(* SpecGenerator: runs of the embedding generator over the dataset file,   *)
(* with the model files of models/ as an earlier training run left them.   *)
(***************************************************************************)
\* the datasets of the generator runs: one appraisal whose properties have
\* usable, nan and inf prices
GeneratorDatasets ==
    { DatasetFile(<<Appraisal(properties, comps)>>) :
        properties \in SeqsUpTo(
            { RawProperty("12 Oak St", Num(400000), NoneRaw, Num(2000)),
              RawProperty("78 Fir St", Num(NaNV), NoneRaw, Num(2100)),
              RawProperty("56 Pine St", Str("inf"), NoneRaw, Num(9000)) }, MaxProps),
        comps \in SeqsUpTo(
            { RawProperty("34 Elm St", Num(380000), NoneRaw, Num(1800)) }, 1) }

\* LightweightEmbeddingGenerator.generate_all_embeddings
GenerateAllEmbeddings ==
    /\ Idle
    /\ store.saves < MaxSaves
    /\ \E dataset \in GeneratorDatasets \cup {Missing}, stage \in SaveStages :
          LET r == generate_all_embeddings(disk, store, dataset, stage,
                                           store.saves + 1)
          IN  /\ store' = r.store
              /\ call' = [op |-> "generate_all_embeddings", ok |-> r.ok,
                          saving |-> r.saving, all_properties |-> r.all_properties,
                          embeddings |-> r.embeddings,
                          valid_properties |-> r.valid_properties,
                          feature_scaler |-> load_trained_models(disk).feature_scaler]
    /\ UNCHANGED <<now, engine, disk, fits, lightweight_search, optimized_engine,
                   fast_engine>>

GeneratorNext ==
    \/ Done
    \/ GenerateAllEmbeddings

SpecGenerator == VectorInit /\ [][GeneratorNext]_vars

(***************************************************************************)
(* SpecFeatures: the four feature extractors applied to the dicts they are  *)
(* handed: the pairwise extractor of the enhanced engine and the            *)
(* single-property extractors of the generator, of the optimized engine    *)
(* and of the fast engine.                                                  *)
(***************************************************************************)
\* dict.get(key, default)
Get(d, key, default) == IF key \in DOMAIN d THEN d[key] ELSE default

\* the subjects of extract_features, one of them without an estimated value
FeatureSubjects ==
    SubjectDicts \cup { [SubjectDict(2000, 5000) EXCEPT !.estimated_value = 0] }

\* the dicts handed to the single-property extractors: properties of the
\* index, query subjects (one with a None price) and request subjects
FeatureProperties ==
    VecSubjects \cup {Oak, Elm, Pine, Fir}
    \cup { [Oak EXCEPT !.structure_type = "Attached"],
           [Elm EXCEPT !.gla = NoneV] }
    \cup SubjectDicts

\* np.zeros(n) and [0.0] * n
Zeros(n) == [i \in 1..n |-> 0]

\* LightweightEmbeddingGenerator.extract_ml_features_single, lines 222-261:
\* float(None) raises and the except branch returns np.zeros(16); ratios in
\* thousandths
extract_ml_features_single(property_data) ==
    LET sale_price == Get(property_data, "sale_price", 0)
        gla == Get(property_data, "gla", 0)
        lot_size == Get(property_data, "lot_size", 0)
        bedrooms == Get(property_data, "bedrooms", 0)
        bathrooms == Get(property_data, "bathrooms", 0)
        year_built == Get(property_data, "year_built", 1990)
        garage_spaces == Get(property_data, "garage_spaces", 0)
        structure_type == Get(property_data, "structure_type", "")
        latitude == Get(property_data, "latitude", 0)
        longitude == Get(property_data, "longitude", 0)
    IN  IF NoneV \in {sale_price, gla, lot_size, bedrooms, bathrooms, year_built,
                      garage_spaces, latitude, longitude}
        THEN Zeros(16)
        ELSE << sale_price \div 1000, gla, lot_size, bedrooms, bathrooms, year_built,
                garage_spaces,
                IF structure_type = "Detached" THEN 1 ELSE 0,
                IF structure_type = "Attached" THEN 1 ELSE 0,
                IF structure_type = "Semi-Detached" THEN 1 ELSE 0,
                latitude, longitude,
                (sale_price * 1000) \div Max(Get(property_data, "gla", 1), 1),
                2024 - year_built,
                bedrooms + bathrooms,
                IF sale_price > 300000 THEN 1 ELSE 0 >>

\* OptimizedRecommendationEngine.extract_ml_features_single, lines 118-157:
\* the same list, the same np.zeros(16) in the except branch
optimized_extract_ml_features_single(property_data) ==
    LET sale_price == Get(property_data, "sale_price", 0)
        gla == Get(property_data, "gla", 0)
        lot_size == Get(property_data, "lot_size", 0)
        bedrooms == Get(property_data, "bedrooms", 0)
        bathrooms == Get(property_data, "bathrooms", 0)
        year_built == Get(property_data, "year_built", 1990)
        garage_spaces == Get(property_data, "garage_spaces", 0)
        structure_type == Get(property_data, "structure_type", "")
        latitude == Get(property_data, "latitude", 0)
        longitude == Get(property_data, "longitude", 0)
    IN  IF NoneV \in {sale_price, gla, lot_size, bedrooms, bathrooms, year_built,
                      garage_spaces, latitude, longitude}
        THEN Zeros(16)
        ELSE << sale_price \div 1000, gla, lot_size, bedrooms, bathrooms, year_built,
                garage_spaces,
                IF structure_type = "Detached" THEN 1 ELSE 0,
                IF structure_type = "Attached" THEN 1 ELSE 0,
                IF structure_type = "Semi-Detached" THEN 1 ELSE 0,
                latitude, longitude,
                (sale_price * 1000) \div Max(Get(property_data, "gla", 1), 1),
                2024 - year_built,
                bedrooms + bathrooms,
                IF sale_price > 300000 THEN 1 ELSE 0 >>

\* datetime.now().year
CurrentYear == 2025

\* FastRecommendationEngine.extract_property_features, lines 71-105: thirteen
\* features, the price read from estimated_value, and [0.0] * 13 in the
\* except branch
extract_property_features(property_data) ==
    LET gla == Get(property_data, "gla", 0)
        lot_size == Get(property_data, "lot_size", 0)
        bedrooms == Get(property_data, "bedrooms", 0)
        bathrooms == Get(property_data, "bathrooms", 2)
        year_built == Get(property_data, "year_built", 1980)
        latitude == Get(property_data, "latitude", 44231)
        longitude == Get(property_data, "longitude", -76486)
        type_encoding ==
            IF Get(property_data, "property_type", "Detached") = "Detached" THEN 1 ELSE 0
        condition == condition_map(Get(property_data, "condition", "Average"))
        quality == condition_map(Get(property_data, "quality", "Average"))
        sale_price == Get(property_data, "estimated_value", 0)
        age == Max(0, CurrentYear - year_built)
        price_per_sqft == IF gla > 0 THEN (sale_price * 1000) \div Max(gla, 1) ELSE 0
    IN  IF NoneV \in {gla, lot_size, bedrooms, bathrooms, year_built, latitude,
                      longitude, sale_price}
        THEN Zeros(13)
        ELSE << gla, lot_size, bedrooms, bathrooms, year_built, latitude, longitude,
                type_encoding, condition, quality, sale_price, age, price_per_sqft >>

FeaturesInit ==
    /\ now = StartDay
    /\ engine = NewEngine
    /\ disk = EmptyDisk
    /\ fits = 0
    /\ VectorStart
    /\ \E subject \in FeatureSubjects, candidate \in CandidateDicts,
          property_data \in FeatureProperties :
          call = [op |-> "dicts", subject |-> subject, candidate |-> candidate,
                  property_data |-> property_data]

\* EnhancedRecommendationEngine.extract_features on the pair
ExtractFeatures ==
    /\ call.op = "dicts"
    /\ call' = [op |-> "extract_features", subject |-> call.subject,
                candidate |-> call.candidate,
                result |-> extract_features(call.subject, call.candidate)]
    /\ UNCHANGED <<now, engine, disk, fits, vectorVars>>

\* LightweightEmbeddingGenerator.extract_ml_features_single on the dict
GeneratorExtractMlFeaturesSingle ==
    /\ call.op = "dicts"
    /\ call' = [op |-> "generator.extract_ml_features_single",
                property_data |-> call.property_data,
                result |-> Returned(extract_ml_features_single(call.property_data))]
    /\ UNCHANGED <<now, engine, disk, fits, vectorVars>>

\* OptimizedRecommendationEngine.extract_ml_features_single on the dict
OptimizedExtractMlFeaturesSingle ==
    /\ call.op = "dicts"
    /\ call' = [op |-> "optimized.extract_ml_features_single",
                property_data |-> call.property_data,
                result |->
                    Returned(optimized_extract_ml_features_single(call.property_data))]
    /\ UNCHANGED <<now, engine, disk, fits, vectorVars>>

\* FastRecommendationEngine.extract_property_features on the dict
FastExtractPropertyFeatures ==
    /\ call.op = "dicts"
    /\ call' = [op |-> "extract_property_features",
                property_data |-> call.property_data,
                result |-> Returned(extract_property_features(call.property_data))]
    /\ UNCHANGED <<now, engine, disk, fits, vectorVars>>

FeaturesNext ==
    \/ ExtractFeatures
    \/ GeneratorExtractMlFeaturesSingle
    \/ OptimizedExtractMlFeaturesSingle
    \/ FastExtractPropertyFeatures

SpecFeatures == FeaturesInit /\ [][FeaturesNext]_vars

(***************************************************************************)
(* SpecOptimized: the optimized path end to end.  The generator builds the  *)
(* index files from a dataset, the optimized engine and the search engine   *)
(* load them at startup and serve queries.                                  *)
(***************************************************************************)
\* the datasets the index is built from
IndexDatasets ==
    { DatasetFile(<<Appraisal(
          <<RawProperty("12 Oak St", Num(400000), NoneRaw, Num(2000)),
            RawProperty("34 Elm St", Num(380000), NoneRaw, Num(1800))>>, <<>>)>>),
      DatasetFile(<<Appraisal(
          <<RawProperty("78 Fir St", Num(90000), NoneRaw, Num(2100)),
            RawProperty("12 Oak St", Num(400000), NoneRaw, Num(2000))>>,
          <<RawProperty("34 Elm St", Num(380000), NoneRaw, Num(1800))>>)>>) }

\* scripts/generate_embeddings.py: a run of generate_all_embeddings that
\* writes both files
RunGenerator ==
    /\ Idle
    /\ store.saves < MaxSaves
    /\ \E dataset \in IndexDatasets :
          LET r == generate_all_embeddings(disk, store, dataset, 4, store.saves + 1)
          IN  /\ store' = r.store
              /\ call' = [op |-> "generate_all_embeddings", ok |-> r.ok,
                          saving |-> r.saving, all_properties |-> r.all_properties,
                          embeddings |-> r.embeddings,
                          valid_properties |-> r.valid_properties,
                          feature_scaler |-> load_trained_models(disk).feature_scaler]
    /\ UNCHANGED <<now, engine, disk, fits, lightweight_search, optimized_engine,
                   fast_engine>>

\* the price ranges and similarity thresholds of search_with_filters
PriceRanges ==
    { NoneObj, [kind |-> "range", min_price |-> 100000, max_price |-> 405000] }

MinSimilarityValues == { 10000, 90000 }

\* LightweightVectorSearch.search_with_filters
SearchWithFilters ==
    /\ Idle
    /\ \E query_vector \in QueryVectors, top_k \in 0..2, price_range \in PriceRanges,
          min_similarity \in MinSimilarityValues :
          LET in == [op |-> "search_with_filters", query_vector |-> query_vector,
                     top_k |-> top_k, price_range |-> price_range,
                     min_similarity |-> min_similarity,
                     ready |-> lightweight_search.is_initialized]
          IN  IF ~lightweight_search.is_initialized
              THEN call' = in @@ [result |-> search_with_filters(
                                      lightweight_search, query_vector, top_k,
                                      price_range, min_similarity, <<>>)]
              ELSE \E top_indices \in
                        TopIndices(Similarities(lightweight_search, query_vector),
                                   top_k * 3) :
                      call' = in @@ [result |-> search_with_filters(
                                         lightweight_search, query_vector, top_k,
                                         price_range, min_similarity, top_indices)]
    /\ UNCHANGED <<now, engine, disk, fits, vectorVars>>

\* the dict get_optimized_recommendations builds from the request, lines
\* 159-178: sale_price is estimated_value or 0
ToOptimizedSubject(obj) ==
    [VecProperty("9 Ash St", OrZero(NoneV), obj.gla) EXCEPT !.lot_size = obj.lot_size]

\* top_k of the call at lines 181-184
OptimizedTopK == 3

\* POST /recommendations/optimized/, dataset_legacy.py lines 137-245: the
\* readiness check raises HTTPException(503) inside the try, whose
\* except Exception branch raises HTTPException(500) for whatever it caught
OptimizedRecommendations ==
    /\ Idle
    /\ LET in == [op |-> "optimized", ready |-> optimized_engine.is_initialized]
           subject == ToOptimizedSubject(SchemaSubject)
           query == EmbedProperty(subject, optimized_engine.feature_scaler)
       IN  IF ~optimized_engine.is_initialized
           THEN call' = in @@ [status |-> 500, error |-> "HTTPException 503",
                               recommendations |-> <<>>]
           ELSE IF ~(EndpointSubjectReads \subseteq SubjectFields)
           THEN call' = in @@ [status |-> 500, error |-> "AttributeError",
                               recommendations |-> <<>>]
           ELSE \E top_indices \in
                     IF lightweight_search.is_initialized
                     THEN TopIndices(Similarities(lightweight_search, query),
                                     OptimizedTopK * 2)
                     ELSE { <<>> } :
                   LET result == get_fast_recommendations(
                                     optimized_engine, lightweight_search, subject,
                                     OptimizedTopK, top_indices)
                   IN  call' = IF result.raised
                               THEN in @@ [status |-> 500, error |-> result.error,
                                           recommendations |-> <<>>]
                               ELSE in @@ [status |-> 200, error |-> "",
                                           recommendations |-> result.value]
    /\ UNCHANGED <<now, engine, disk, fits, vectorVars>>

OptimizedNext ==
    \/ Done
    \/ RunGenerator
    \/ LightweightInitialize
    \/ OptimizedInitialize
    \/ SearchWithFilters
    \/ OptimizedGetFastRecommendations
    \/ OptimizedRecommendations

SpecOptimized == VectorInit /\ [][OptimizedNext]_vars

(***************************************************************************)
(* SpecRank: the tail of get_recommendations (lines 282-290) applied to    *)
(* every list the scoring loop can hand it over the score domain below.    *)
(* In Spec the scoring loop raises for every candidate it is given (see    *)
(* _calculate_adjustments), so the tail is exercised here on its own.      *)
(***************************************************************************)
OverallScoreValues == {89500, 95000, 99500}

RankTopKValues == {-1, 0, 1, 2, 3}

RankInit ==
    /\ now = StartDay
    /\ engine = NewEngine
    /\ disk = EmptyDisk
    /\ fits = 0
    /\ VectorStart
    /\ \E n \in 0..MaxRecs, top_k \in RankTopKValues :
        \E f \in [1..n -> OverallScoreValues] :
            call = [op |-> "scored", top_k |-> top_k,
                    scored_list |-> [i \in 1..n |->
                        [idx |-> i, rank |-> 0, similarity_score |-> 100000,
                         overall_score |-> f[i]]]]

\* lines 282-290
RankStep ==
    /\ call.op = "scored"
    /\ call' = [op |-> "ranked", top_k |-> call.top_k,
                scored_list |-> call.scored_list,
                recommendations |-> SortTruncateRank(call.scored_list, call.top_k)]
    /\ UNCHANGED <<now, engine, disk, fits, vectorVars>>

RankNext == RankStep

SpecRank == RankInit /\ [][RankNext]_vars

(***************************************************************************)
(* Properties of get_recommendations.                                      *)
(***************************************************************************)
IsGetRecs == call.op = "get_recommendations"

Range(seq) == {seq[i] : i \in 1..Len(seq)}

\* a candidate of the last call is within both bounds
WithinBounds(i) ==
    LET prop == call.candidates[i]
        miles10 == Abs(prop.latitude - call.subject.latitude)
        days == IF prop.sale_date = NoneV THEN 999 ELSE now - prop.sale_date
    IN  miles10 <= call.max_distance /\ days <= call.max_days_since_sale

\* C1: a candidate survives the distance/recency filter of get_recommendations
\* if and only if its distance is <= max_distance and its days since sale
\* (999 when it has no sale date) is <= max_days_since_sale; the survivors
\* keep their input order.
C1_FilterCorrect ==
    IsGetRecs =>
        /\ \A i \in 1..Len(call.candidates) :
              (i \in Range(call.filtered_candidates)) <=> WithinBounds(i)
        /\ \A j, k \in 1..Len(call.filtered_candidates) :
              j < k => call.filtered_candidates[j] < call.filtered_candidates[k]

\* a call at a bound: one candidate exactly at max_distance survives, another
\* one is rejected
C1_Witness ==
    /\ IsGetRecs
    /\ Len(call.filtered_candidates) = 1
    /\ Len(call.candidates) = 2
    /\ \E i \in Range(call.filtered_candidates) :
          Abs(call.candidates[i].latitude - call.subject.latitude) = call.max_distance

\* C2: the list returned by the sort of get_recommendations is in descending
\* order of overall score, and entries of equal overall score keep the order
\* their candidates had in the input.
C2_SortedStable ==
    call.op = "ranked" =>
        \A i, j \in 1..Len(call.recommendations) :
            i < j =>
                /\ call.recommendations[i].overall_score
                       >= call.recommendations[j].overall_score
                /\ call.recommendations[i].overall_score
                       = call.recommendations[j].overall_score
                   => call.recommendations[i].idx < call.recommendations[j].idx

\* a returned list with a tie behind a higher score that came later in the input
C2_Witness ==
    /\ call.op = "ranked"
    /\ Len(call.recommendations) = 3
    /\ call.scored_list[3].overall_score > call.scored_list[1].overall_score
    /\ call.scored_list[1].overall_score = call.scored_list[2].overall_score
    /\ call.recommendations[2].idx = 1
    /\ call.recommendations[3].idx = 2

\* C3 as stated: the number of returned recommendations is at most
\* min(top_k, number of survivors of the filter).
C3_LengthAtMostMin ==
    (IsGetRecs /\ call.outcome = "returned") =>
        Len(call.recommendations) <= Min(call.top_k, Len(call.filtered_candidates))

\* C4: the ranks of the returned list are 1..n in list order, assigned after
\* sorting and truncation.
C4_DenseRanks ==
    call.op = "ranked" =>
        \A i \in 1..Len(call.recommendations) : call.recommendations[i].rank = i

\* a returned list of two entries, cut from three and reordered by the sort
C4_Witness ==
    /\ call.op = "ranked"
    /\ Len(call.scored_list) = 3
    /\ Len(call.recommendations) = 2
    /\ call.recommendations[1].idx = 3
    /\ call.recommendations[2].rank = 2

\* C5: an empty candidate list, or one in which every candidate fails the
\* filter, makes get_recommendations return the empty list without raising.
C5_EmptyNotError ==
    (IsGetRecs /\ \A i \in 1..Len(call.candidates) : ~WithinBounds(i)) =>
        /\ call.outcome = "returned"
        /\ call.recommendations = <<>>

\* two candidates, one too far and one too old, and the empty list came back
C5_Witness ==
    /\ IsGetRecs
    /\ Len(call.candidates) = 2
    /\ call.candidates[1].latitude > call.max_distance
    /\ call.max_distance > 0
    /\ call.candidates[2].latitude = 0
    /\ call.candidates[2].sale_date # NoneV
    /\ now - call.candidates[2].sale_date > call.max_days_since_sale
    /\ call.outcome = "returned"
    /\ call.recommendations = <<>>

(***************************************************************************)
(* Properties of the scorers.                                              *)
(***************************************************************************)
IsScorerCall ==
    call.op \in {"_calculate_similarity_score", "_rule_based_similarity",
                 "predict_similarity"}

\* C6: every similarity score returned by _calculate_similarity_score, by
\* _rule_based_similarity and by predict_similarity (trained branch and
\* fallback) lies in [0, 100].
C6_ScoreInRange ==
    (IsScorerCall /\ ~call.result.raised) =>
        (0 <= call.result.value /\ call.result.value <= 100000)

\* predict_similarity fell back to the rule-based scorer for a candidate sold
\* at a date ahead of the clock, whose contributions add up to more than 100
C6_Witness ==
    /\ call.op = "predict_similarity"
    /\ ~engine.is_trained
    /\ call.subject.gla = call.candidate.gla
    /\ call.candidate.sale_date.kind = "iso"
    /\ call.candidate.sale_date.day > now
    /\ ~call.result.raised
    /\ call.result.value = 100000

\* the trained model cannot be used for the pair of the last call
ModelUnusable ==
    \/ ~engine.is_trained
    \/ ~engine.scaler.fitted
    \/ ~engine.similarity_model.fitted
    \/ engine.scaler.features # FeatureCount
    \/ engine.similarity_model.features # FeatureCount
    \/ call.subject.gla = NoneV \/ call.candidate.gla = NoneV
    \/ call.subject.lot_size = NoneV \/ call.candidate.lot_size = NoneV

C8_ErrorSkipsCandidate ==
    IsGetRecs =>
        /\ call.outcome = "returned"
        /\ Range(call.scored) = Range(call.filtered_candidates)

\* C9 as stated: a query with a non-positive max_distance, max_days_since_sale
\* or top_k is rejected before any candidate is filtered or scored and never
\* returns a list.
C9_NonPositiveRejected ==
    (IsGetRecs /\ (call.max_distance <= 0 \/ call.max_days_since_sale <= 0
                   \/ call.top_k <= 0)) =>
        /\ call.outcome # "returned"
        /\ call.filtered_candidates = <<>>
        /\ call.scored = <<>>

\* C10 as stated: no candidate without a positive sale price or without a
\* positive gla is handed to the similarity scorer.
C10_InvalidNeverScored ==
    IsGetRecs =>
        \A i \in Range(call.scored) :
            /\ call.candidates[i].sale_price # NoneV
            /\ call.candidates[i].sale_price > 0
            /\ call.candidates[i].gla > 0

(***************************************************************************)
(* Properties of the vector path.                                          *)
(***************************************************************************)
\* C11 as stated: whatever loads have run and however they ended, an engine
\* whose ready flag is true holds an embedding matrix with as many rows as
\* its metadata list has entries.
C11_ReadyImpliesConsistent ==
    /\ lightweight_search.is_initialized =>
          Rows(lightweight_search.property_embeddings)
              = Rows(lightweight_search.property_metadata)
    /\ fast_engine.is_loaded =>
          Rows(fast_engine.property_embeddings) = Rows(fast_engine.property_metadata)

\* C12 as stated: after save_embeddings_and_metadata, however it ended, the
\* embeddings file and the metadata file are either both the ones this call
\* wrote or both the ones that were there before it.
C12_SaveAtomic ==
    call.op = "save_embeddings_and_metadata" =>
        \/ /\ store.embeddings = call.before.embeddings
           /\ store.metadata = call.before.metadata
        \/ /\ store.embeddings.kind = "array"
           /\ store.metadata.kind = "list"
           /\ store.embeddings.save = call.save
           /\ store.metadata.save = call.save

\* a query of one of the three vector engines
IsVectorQuery ==
    call.op \in {"search_similar_properties", "get_fast_recommendations",
                 "fast_engine.get_fast_recommendations"}

\* C13: a vector query issued while the engine's ready flag is false ends in
\* the not-ready RuntimeError and returns nothing, whatever a failed
\* initialization has left loaded.
C13_NotReadyRaises ==
    (IsVectorQuery /\ ~call.ready) =>
        /\ call.result.raised
        /\ call.result.error = "RuntimeError"

\* the optimized engine was queried after an initialization that failed
\* part-way and left the search engine's index loaded, and answered not ready
C13_Witness ==
    /\ call.op = "get_fast_recommendations"
    /\ ~optimized_engine.is_initialized
    /\ lightweight_search.is_initialized
    /\ Rows(lightweight_search.property_embeddings) > 0
    /\ call.result.raised
    /\ call.result.error = "RuntimeError"

(***************************************************************************)
(* Properties of the model bundle and of training.                         *)
(***************************************************************************)
\* C14 as stated: load_model compares the feature_count of model_metadata.json
\* with the width of the extractor's output, and a bundle whose feature_count
\* differs fails to load: the call returns false and the engine does not
\* become trained from it.
C14_LoadChecksFeatureCount ==
    (/\ call.op = "load_model"
     /\ disk.metadata.kind = "metadata"
     /\ disk.metadata.feature_count # FeatureCount) =>
        /\ ~call.ok
        /\ engine.is_trained = call.before.is_trained

\* C15 as stated: when train raises, at whatever step, the scaler, the
\* classifier and the is_trained flag of the engine are what they were before
\* the call.
C15_TrainAllOrNothing ==
    (call.op = "train" /\ ~call.ok) =>
        /\ engine.scaler = call.before.scaler
        /\ engine.similarity_model = call.before.similarity_model
        /\ engine.is_trained = call.before.is_trained

(***************************************************************************)
(* Further properties of the scorers.                                      *)
(***************************************************************************)
\* C16 as stated: a scorer called again with the same pair (and, for
\* predict_similarity, the same engine) returns the same score whatever time
\* has passed: the result of a call is the result the same call has on the
\* day the process started.
C16_SameScoreAtAnyTime ==
    /\ call.op = "_calculate_similarity_score" =>
          call.result = _calculate_similarity_score(call.subject, call.candidate)
    /\ call.op = "_rule_based_similarity" =>
          call.result = _rule_based_similarity(call.subject, call.candidate, StartDay)
    /\ call.op = "predict_similarity" =>
          call.result = predict_similarity(engine, call.subject, call.candidate, StartDay)

\* the GLA values a candidate is given in the comparison of C17
GlaValues == {0, 1000, 1800, 2000, 2200, 3000, 9000}

\* C17: for both rule-based scorers, a candidate that differs from the
\* candidate of the call only in its gla, and whose gla is at least as far
\* from the subject's, does not get a higher score.
C17_GlaMonotone ==
    /\ (call.op = "_rule_based_similarity" /\ ~call.result.raised) =>
          \A g \in GlaValues :
              Abs(g - call.subject.gla) >= Abs(call.candidate.gla - call.subject.gla) =>
                  _rule_based_similarity(call.subject, [call.candidate EXCEPT !.gla = g],
                                         now).value <= call.result.value
    /\ (call.op = "_calculate_similarity_score" /\ ~call.result.raised) =>
          \A g \in GlaValues :
              Abs(g - call.subject.gla) >= Abs(call.candidate.gla - call.subject.gla) =>
                  _calculate_similarity_score(call.subject,
                      [call.candidate EXCEPT !.gla = g]).value <= call.result.value

\* a candidate much larger than the subject was scored below the score it
\* would have with the subject's gla
C17_Witness ==
    /\ call.op = "_rule_based_similarity"
    /\ call.subject.gla = 2000
    /\ call.candidate.gla = 9000
    /\ ~call.result.raised
    /\ call.result.value + 30000
          = _rule_based_similarity(call.subject, [call.candidate EXCEPT !.gla = 2000],
                                   now).value

\* the attributes a subject and a candidate have in common are equal
IdenticalDicts(subject, candidate) ==
    \A f \in {"gla", "lot_size", "bedrooms", "bathrooms", "year_built", "latitude",
               "longitude", "neighborhood", "property_type", "structure_type",
               "condition", "quality", "features"} : subject[f] = candidate[f]

IdenticalObjects(subject, comp) ==
    \A f \in {"gla", "lot_size", "bedrooms", "bathrooms", "year_built", "latitude",
               "longitude", "property_type"} : subject[f] = comp[f]

\* C18 as stated: a candidate identical to the subject and sold today gets
\* exactly 100.0 from both rule-based scorers, with distance 0 and 0 days
\* since the sale, whether its sale date is an ISO string, a 'Z'-suffixed
\* string or a datetime object.
C18_IdenticalScoresHundred ==
    /\ (/\ call.op = "_rule_based_similarity"
        /\ IdenticalDicts(call.subject, call.candidate)
        /\ call.candidate.sale_date.kind \in {"iso", "isoZ", "datetime"}
        /\ call.candidate.sale_date.day = now) =>
          call.result = Returned(100000)
    /\ (/\ call.op = "_calculate_similarity_score"
        /\ IdenticalObjects(call.subject, call.candidate)
        /\ call.candidate.sale_date = now) =>
          /\ call.result = Returned(100000)
          /\ calculate_distance(call.subject.latitude, call.subject.longitude,
                                call.candidate.latitude, call.candidate.longitude) = 0
          /\ DaysSinceSale(call.candidate, now) = 0

(***************************************************************************)
(* Properties of the vector search.                                        *)
(***************************************************************************)
\* the k highest values of similarities in descending order
RECURSIVE HighestValues(_, _, _)
HighestValues(similarities, S, k) ==
    IF k = 0 \/ S = {} THEN <<>>
    ELSE LET i == CHOOSE i \in S : \A j \in S : similarities[j] <= similarities[i]
         IN  <<similarities[i]>> \o HighestValues(similarities, S \ {i}, k - 1)

AboveFloor(v) == v > 1000

\* C19: for top_k >= 1, the similarity scores search_similar_properties
\* returns are, in order, those of the first top_k rows of the full descending
\* sort that lie above the 0.01 floor, and no row left out has a higher
\* similarity than a row returned.
C19_PartitionIsFullSort ==
    (/\ call.op = "search_similar_properties"
     /\ call.ready
     /\ call.top_k >= 1
     /\ ~call.result.raised) =>
        LET results == call.result.value
            returned == {results[i].property_index : i \in 1..Len(results)}
        IN  /\ [i \in 1..Len(results) |-> results[i].similarity_raw]
                  = SelectSeq(HighestValues(call.similarities,
                                            1..Len(call.similarities), call.top_k),
                              AboveFloor)
            /\ \A i \in returned, j \in (1..Len(call.similarities)) \ returned :
                  call.similarities[j] <= call.similarities[i]

\* the partition branch: two of three rows asked for, the two rows tied at
\* the top came back and the row under the floor was left out
C19_Witness ==
    /\ call.op = "search_similar_properties"
    /\ call.ready
    /\ call.top_k = 2
    /\ Len(call.similarities) = 3
    /\ ~call.result.raised
    /\ Len(call.result.value) = 2
    /\ call.result.value[1].similarity_raw = call.result.value[2].similarity_raw
    /\ \E j \in 1..3 : call.similarities[j] <= 1000 /\ call.similarities[j] > 0

\* C20 as stated: every recommendation the optimized engine returns has a
\* sale price within [0.25, 2.0] times the subject's price, a gla within
\* [0.4, 2.5] times the subject's gla and an address that, trimmed and
\* lower-cased, differs from the subject's.
C20_BusinessRulesHold ==
    (call.op = "get_fast_recommendations" /\ ~call.result.raised) =>
        \A i \in 1..Len(call.result.value) :
            LET subject == call.subject_property
                candidate == call.result.value[i].property
            IN  /\ subject.sale_price # NoneV
                /\ candidate.sale_price * 100 >= subject.sale_price * 25
                /\ candidate.sale_price <= subject.sale_price * 2
                /\ candidate.gla * 10 >= subject.gla * 4
                /\ candidate.gla * 10 <= subject.gla * 25
                /\ NormalizeAddress(candidate.address) # NormalizeAddress(subject.address)

(***************************************************************************)
(* Further properties of the optimized engine and of the filtered search.  *)
(***************************************************************************)
\* the similarities of the index rows with the subject of the last
\* get_fast_recommendations call
SubjectSimilarities ==
    Similarities(lightweight_search,
                 EmbedProperty(call.subject_property, optimized_engine.feature_scaler))

\* C21 as stated: every recommendation get_fast_recommendations returns is one
\* of the top top_k matches by similarity: fewer than top_k rows of the index
\* are more similar to the subject than it is, so no weaker match has been
\* pulled in to replace a filtered one.
C21_NoBackfill ==
    (call.op = "get_fast_recommendations" /\ ~call.result.raised) =>
        \A i \in 1..Len(call.result.value) :
            Cardinality({ j \in 1..Len(SubjectSimilarities) :
                            SubjectSimilarities[j]
                                > call.result.value[i].similarity_raw }) < call.top_k

(***************************************************************************)
(* Properties of the embedding generator.                                  *)
(***************************************************************************)
\* the positions in all_properties of the entries of a subsequence of it that
\* are first of their normalized address, blank addresses left out
FirstOccurrences(all_properties) ==
    { i \in 1..Len(all_properties) :
        /\ NormalizeAddress(all_properties[i].address) # ""
        /\ \A j \in 1..(i - 1) :
              NormalizeAddress(all_properties[j].address)
                  # NormalizeAddress(all_properties[i].address) }

\* the entries of seq at the positions of S, in the order of seq
RECURSIVE Pick(_, _, _)
Pick(seq, S, i) ==
    IF i > Len(seq) THEN <<>>
    ELSE (IF i \in S THEN <<seq[i]>> ELSE <<>>) \o Pick(seq, S, i + 1)

\* C22: extract_all_properties returns a list in which no two properties have
\* the same address after trimming and lower-casing; the property kept for a
\* normalized address is the first one with it among the standardized
\* properties in dataset order, and the kept properties keep their order.
C22_DedupeFirstWins ==
    call.op = "extract_all_properties" =>
        /\ \A i, j \in 1..Len(call.result) :
              i # j => NormalizeAddress(call.result[i].address)
                           # NormalizeAddress(call.result[j].address)
        /\ call.result = Pick(call.all_properties,
                              FirstOccurrences(call.all_properties), 1)

\* a dataset of two appraisals in which an address written in two ways comes
\* up in both: the first spelling was kept, the later ones were dropped and
\* the kept properties are in dataset order
C22_Witness ==
    /\ call.op = "extract_all_properties"
    /\ Len(call.dataset.appraisals) = 2
    /\ Len(call.all_properties) = 4
    /\ Len(call.result) = 2
    /\ call.result[1].address = " 12 OAK ST "
    /\ call.result[2].address = "34 Elm St"
    /\ call.all_properties[4].address = "12 Oak St"

\* C23: in generate_all_embeddings a property whose scaled features contain
\* nan or inf goes into neither list, and after every pass of the loop the
\* embeddings and the metadata have the same length with row i computed from
\* metadata entry i; the valid properties keep the order of all_properties.
C23_Lockstep ==
    call.op = "generate_all_embeddings" =>
        \A k \in 0..Len(call.all_properties) :
            LET loop == GenerateLoop(SubSeq(call.all_properties, 1, k),
                                     call.feature_scaler, <<>>, <<>>)
            IN  /\ Len(loop.embeddings) = Len(loop.valid_properties)
                /\ \A i \in 1..Len(loop.embeddings) :
                      /\ loop.embeddings[i]
                             = FeaturesScaled(loop.valid_properties[i],
                                              call.feature_scaler)
                      /\ loop.embeddings[i] # InvalidVector
                /\ loop.valid_properties
                       = SelectSeq(SubSeq(call.all_properties, 1, k),
                                   LAMBDA prop :
                                       FeaturesScaled(prop, call.feature_scaler)
                                           # InvalidVector)
                /\ k = Len(call.all_properties) =>
                      /\ loop.embeddings = call.embeddings
                      /\ call.saving => loop.valid_properties = call.valid_properties

\* a run in which a property with a nan price stood between two valid ones:
\* it was left out of both lists and two rows were handed to save
C23_Witness ==
    /\ call.op = "generate_all_embeddings"
    /\ call.saving
    /\ Len(call.all_properties) = 3
    /\ call.all_properties[2].sale_price = NaNV
    /\ Len(call.embeddings) = 2
    /\ Len(call.valid_properties) = 2
    /\ call.valid_properties[2] = call.all_properties[3]

(***************************************************************************)
(* Properties of the adjustments and of the request path.                  *)
(***************************************************************************)
\* C24 as stated: _calculate_adjustments returns adjustments whose location
\* adjustment is -2000 per mile beyond 1 mile and 0 up to 1 mile, and whose
\* time adjustment is -3000 per 30 days beyond 90 days and 0 up to 90 days
\* and for a candidate without a sale date.
C24_AdjustmentThresholds ==
    call.op = "_calculate_adjustments" =>
        LET distance == Abs(call.candidate.latitude - call.subject.latitude)
            dated == call.candidate.sale_date # NoneV
            days == now - call.candidate.sale_date
        IN  /\ ~call.result.raised
            /\ call.result.value.location_adjustment
                   = (IF distance > 10 THEN 0 - 200 * (distance - 10) ELSE 0)
            /\ call.result.value.time_adjustment
                   = (IF dated /\ days > 90 THEN 0 - 100 * (days - 90) ELSE 0)

\* C28 as stated: a request the AppraisalRequest schema accepts, in which at
\* least one candidate passes the distance/recency filter, is answered by
\* POST /recommendations/ with a non-empty list of recommendations and not
\* with a 500 failure.
C28_SchemaRequestServed ==
    (/\ call.op = "recommendations"
     /\ \E i \in 1..Len(call.candidates) : WithinBounds(i)) =>
        /\ call.status = 200
        /\ call.recommendations # <<>>

(***************************************************************************)
(* Properties of the feature extractors.                                   *)
(***************************************************************************)
\* C25 as stated: every vector an extractor returns, the zero vectors of the
\* except branches included, has the 16 components of the vectors the model
\* and the scaler were fitted on
C25_SameDimensionality ==
    (/\ call.op \in {"extract_features", "generator.extract_ml_features_single",
                     "optimized.extract_ml_features_single",
                     "extract_property_features"}
     /\ ~call.result.raised) =>
        Len(call.result.value) = FeatureCount

(***************************************************************************)
(* Properties of the optimized endpoint and of the optimized engine.       *)
(***************************************************************************)
\* C26 as stated: a POST to /recommendations/optimized/ that finds the
\* optimized engine not initialized is answered with status 503
C26_NotReadyIs503 ==
    (call.op = "optimized" /\ ~call.ready) => call.status = 503

\* C27 as stated: the entries get_fast_recommendations and
\* search_with_filters return carry the ranks 1..n in list order
C27_DenseRanks ==
    (/\ call.op \in {"get_fast_recommendations", "search_with_filters"}
     /\ ~call.result.raised) =>
        \A i \in 1..Len(call.result.value) : call.result.value[i].rank = i

\* C29 as stated: whenever the optimized engine reports is_initialized, its
\* classifier and its feature scaler are loaded and the vector search is
\* initialized
C29_ReadyMeansLoaded ==
    optimized_engine.is_initialized =>
        /\ optimized_engine.ml_model # NoneObj
        /\ optimized_engine.feature_scaler # NoneObj
        /\ lightweight_search.is_initialized

(***************************************************************************)
(* Properties of a failed load.                                            *)
(***************************************************************************)
\* C30 as stated: a load_model that returns False leaves similarity_model,
\* scaler, model_version and is_trained as they were before the call
C30_FailedLoadChangesNothing ==
    (call.op = "load_model" /\ ~call.ok) =>
        /\ engine.similarity_model = call.before.similarity_model
        /\ engine.scaler = call.before.scaler
        /\ engine.model_version = call.before.model_version
        /\ engine.is_trained = call.before.is_trained

====
